---- MODULE Spec2Model ----
(***************************************************************************)
(* Serial-range expansion and bulk-item intake of the stock application.   *)
(*                                                                         *)
(* A JavaScript string is modelled as a sequence of one-character strings, *)
(* so that indexing, substring, concatenation and length are the sequence  *)
(* operations.  Indices are 0-based as in the source: Char(s, i) is s[i].  *)
(***************************************************************************)
EXTENDS Integers, Sequences, FiniteSets

\* ------------------------------------------------------------ bounds
\* Longest serial typed into a field (every string over Chars up to it).
MaxLen == 3
\* Longest run of blanks typed around a serial in a form field.
MaxPad == 1
\* Longest text typed into the list of serials (every text up to it).
MaxText == 4

\* ------------------------------------------------------------ strings
DigitChars == <<"0", "1", "2", "3", "4", "5", "6", "7", "8", "9">>

Digits == {DigitChars[k] : k \in 1..10}

\* The characters the modelled user types into a serial field.
Chars == {"A", "a", "0", "1"}

Whitespace == {" ", "\n"}

\* s[i], 0-based
Char(s, i) == s[i + 1]

\* s.substring(a, b) for 0 <= a <= b <= s.length
Substring(s, a, b) == SubSeq(s, a + 1, b)

\* s.substring(a)
SubstringFrom(s, a) == SubSeq(s, a + 1, Len(s))

\* parseInt(c, 10) of a one-character string: the digit's value, or NaN (-1)
NaN == -1

ParseIntChar(c) ==
    IF c \in Digits THEN (CHOOSE k \in 1..10 : DigitChars[k] = c) - 1 ELSE NaN

isNaN(v) == v = NaN

\* parseInt(numStr, 10) of a non-empty run of decimal digits
RECURSIVE ParseInt(_)
ParseInt(ds) ==
    IF Len(ds) = 0 THEN 0
    ELSE 10 * ParseInt(SubSeq(ds, 1, Len(ds) - 1)) + ParseIntChar(ds[Len(ds)])

\* String(i) of a non-negative integer
RECURSIVE String(_)
String(n) ==
    IF n < 10 THEN <<DigitChars[n + 1]>>
    ELSE String(n \div 10) \o <<DigitChars[(n % 10) + 1]>>

\* s.padStart(targetLength, '0')
RECURSIVE padStart(_, _)
padStart(s, targetLength) ==
    IF Len(s) >= targetLength THEN s
    ELSE padStart(<<"0">> \o s, targetLength)

\* Mutation of MathMax: the pad length taken from the start serial alone.
MathMaxFirstOnly(a, b) == a

MathMax(a, b) == IF a >= b THEN a ELSE b

\* s.trim()
RECURSIVE TrimStart(_)
TrimStart(s) ==
    IF Len(s) > 0 /\ s[1] \in Whitespace THEN TrimStart(Tail(s)) ELSE s

RECURSIVE TrimEnd(_)
TrimEnd(s) ==
    IF Len(s) > 0 /\ s[Len(s)] \in Whitespace
    THEN TrimEnd(SubSeq(s, 1, Len(s) - 1)) ELSE s

trim(s) == TrimEnd(TrimStart(s))

\* text.split('\n'): the pieces of text[lo..hi] between line feeds, the pieces
\* of the two halves joined where the halves meet
RECURSIVE SplitRange(_, _, _)
SplitRange(text, lo, hi) ==
    IF lo = hi
    THEN IF text[lo] = "\n" THEN << <<>>, <<>> >> ELSE << <<text[lo]>> >>
    ELSE LET mid == (lo + hi) \div 2
             left == SplitRange(text, lo, mid)
             right == SplitRange(text, mid + 1, hi)
         IN SubSeq(left, 1, Len(left) - 1)
            \o << left[Len(left)] \o right[1] >>
            \o SubSeq(right, 2, Len(right))

split(text) == IF Len(text) = 0 THEN << <<>> >> ELSE SplitRange(text, 1, Len(text))

\* Boolean(s) of a string
Truthy(s) == Len(s) > 0

\* ------------------------------------------------------------ numbers
\* A JavaScript number holding an integer below 2^54 is kept as two limbs of
\* eight decimal digits, hi * 10^8 + lo, where the arithmetic of the checker
\* would overflow.  Integers below 2^53 are exact; from 2^53 to 2^54 only the
\* even ones exist and a value between two of them is rounded to the nearest,
\* a tie to the one whose significand is even (the multiple of 4).
LimbBase == 10 ^ 8

Num(hi, lo) == [hi |-> hi, lo |-> lo]

\* 2^53 = 9007199254740992
TwoPow53 == Num(90071992, 54740992)

NumLess(a, b) == a.hi < b.hi \/ (a.hi = b.hi /\ a.lo < b.lo)

\* a > b, a <= b of two numbers
NumGreater(a, b) == NumLess(b, a)

NumAtMost(a, b) == ~NumLess(b, a)

\* The integer n + 1, before it is rounded
Succ(n) == IF n.lo + 1 = LimbBase THEN Num(n.hi + 1, 0) ELSE Num(n.hi, n.lo + 1)

\* The number nearest to the integer n
RoundToNumber(n) ==
    IF NumLess(n, TwoPow53) \/ n.lo % 2 = 0 THEN n
    ELSE IF (n.lo + 1) % 4 = 0 THEN Succ(n)
    ELSE Num(n.hi, n.lo - 1)

\* The integer written by a run of at most sixteen digits
DigitsToInteger(ds) ==
    IF Len(ds) <= 8 THEN Num(0, ParseInt(ds))
    ELSE Num(ParseInt(SubSeq(ds, 1, Len(ds) - 8)),
             ParseInt(SubSeq(ds, Len(ds) - 7, Len(ds))))

\* parseInt(numStr, 10) as a number
ParseNumber(ds) == RoundToNumber(DigitsToInteger(ds))

\* i++ of a number
Increment(n) == RoundToNumber(Succ(n))

\* String(i) of a number
NumberString(n) ==
    IF n.hi = 0 THEN String(n.lo) ELSE String(n.hi) \o padStart(String(n.lo), 8)

\* ------------------------------------------------------------ parseSerial
\* Mutation of ScanLastDigit: i > 0, the character at index 0 is not looked at.
RECURSIVE ScanLastDigitSkipsFirst(_, _)
ScanLastDigitSkipsFirst(serial, i) ==
    IF i <= 0 THEN -1
    ELSE IF ~isNaN(ParseIntChar(Char(serial, i))) THEN i
    ELSE ScanLastDigitSkipsFirst(serial, i - 1)

\* for (let i = serial.length - 1; i >= 0; i--) if digit: lastDigitIndex = i
RECURSIVE ScanLastDigit(_, _)
ScanLastDigit(serial, i) ==
    IF i < 0 THEN -1
    ELSE IF ~isNaN(ParseIntChar(Char(serial, i))) THEN i
    ELSE ScanLastDigit(serial, i - 1)

lastDigitIndexOf(serial) == ScanLastDigit(serial, Len(serial) - 1)

\* Mutation of ScanFirstDigit: the run is not extended to the left.
ScanFirstDigitNoLoop(serial, firstDigitIndex) == firstDigitIndex

\* while (firstDigitIndex > 0 && digit at firstDigitIndex - 1) firstDigitIndex--
RECURSIVE ScanFirstDigit(_, _)
ScanFirstDigit(serial, firstDigitIndex) ==
    IF firstDigitIndex > 0 /\ ~isNaN(ParseIntChar(Char(serial, firstDigitIndex - 1)))
    THEN ScanFirstDigit(serial, firstDigitIndex - 1)
    ELSE firstDigitIndex

\* The value null of a missing parse, as a record of the same shape.
NullParts == [isNull |-> TRUE, prefix |-> <<>>, numStr |-> <<>>, suffix |-> <<>>]

\* Mutation of parseSerial: the suffix starts at the last digit itself.
parseSerialSuffixFromDigit(serial) ==
    LET lastDigitIndex == lastDigitIndexOf(serial) IN
    IF lastDigitIndex = -1 THEN NullParts
    ELSE LET firstDigitIndex == ScanFirstDigit(serial, lastDigitIndex) IN
         [isNull |-> FALSE,
          prefix |-> Substring(serial, 0, firstDigitIndex),
          numStr |-> Substring(serial, firstDigitIndex, lastDigitIndex + 1),
          suffix |-> SubstringFrom(serial, lastDigitIndex)]

parseSerial(serial) ==
    LET lastDigitIndex == lastDigitIndexOf(serial) IN
    IF lastDigitIndex = -1 THEN NullParts
    ELSE LET firstDigitIndex == ScanFirstDigit(serial, lastDigitIndex) IN
         [isNull |-> FALSE,
          prefix |-> Substring(serial, 0, firstDigitIndex),
          numStr |-> Substring(serial, firstDigitIndex, lastDigitIndex + 1),
          suffix |-> SubstringFrom(serial, lastDigitIndex + 1)]

\* ------------------------------------------------------------ expandRange
ErrInvalidFormat ==
    "Invalid format. Serials must contain a number part for range expansion."

ErrTextParts ==
    "The text parts (prefix/suffix) of the serial numbers do not match."

ErrStartGreater ==
    "The start number cannot be greater than the end number."

\* { error: msg }: result is undefined
ErrorOf(msg) == [hasError |-> TRUE, error |-> msg, hasResult |-> FALSE, result |-> <<>>]

\* { result: results }: error is undefined
ResultOf(results) ==
    [hasError |-> FALSE, error |-> "undefined", hasResult |-> TRUE, result |-> results]

\* Mutation of RangeElement: the number is not padded.
RangeElementUnpadded(prefix, i, padLength, suffix) ==
    prefix \o String(i) \o suffix

\* Mutation of RangeElement: the suffix is put before the number.
RangeElementSuffixFirst(prefix, i, padLength, suffix) ==
    prefix \o suffix \o padStart(String(i), padLength)

\* One serial of the loop body: prefix + String(i).padStart(padLength,'0') + suffix
RangeElement(prefix, i, padLength, suffix) ==
    prefix \o padStart(String(i), padLength) \o suffix

\* Mutation of RangeLoop: the loop counter starts one past startNum.
RangeLoopLateStart(prefix, startNum, endNum, padLength, suffix) ==
    [k \in 1..(endNum - startNum + 1) |->
        RangeElement(prefix, startNum + k, padLength, suffix)]

\* Mutation of RangeLoop: i < endNum, the end of the range is left out.
RangeLoopExclusiveEnd(prefix, startNum, endNum, padLength, suffix) ==
    [k \in 1..(endNum - startNum) |->
        RangeElement(prefix, startNum + k - 1, padLength, suffix)]

\* for (let i = startNum; i <= endNum; i++) results.push(...)
RangeLoop(prefix, startNum, endNum, padLength, suffix) ==
    [k \in 1..(endNum - startNum + 1) |->
        RangeElement(prefix, startNum + k - 1, padLength, suffix)]

\* Mutation of MissingNumberPart: && for ||.
MissingNumberPartBoth(startParts, endParts) == startParts.isNull /\ endParts.isNull

\* Mutation of TextPartsDiffer: the suffixes are not compared.
TextPartsDifferPrefixOnly(startParts, endParts) ==
    startParts.prefix # endParts.prefix

\* Mutation of StartExceedsEnd: >= for >.
StartReachesEnd(startNum, endNum) == startNum >= endNum

\* if (!startParts || !endParts)
MissingNumberPart(startParts, endParts) == startParts.isNull \/ endParts.isNull

\* if (startPrefix !== endPrefix || startSuffix !== endSuffix)
TextPartsDiffer(startParts, endParts) ==
    startParts.prefix # endParts.prefix \/ startParts.suffix # endParts.suffix

\* if (startNum > endNum)
StartExceedsEnd(startNum, endNum) == startNum > endNum

\* Mutation of expandRange: the numbers are compared before the text parts.
expandRangeNumbersFirst(start, end) ==
    LET startParts == parseSerial(start)
        endParts == parseSerial(end)
    IN
    IF MissingNumberPart(startParts, endParts) THEN ErrorOf(ErrInvalidFormat)
    ELSE LET startNum == ParseInt(startParts.numStr)
             endNum == ParseInt(endParts.numStr)
         IN
         IF StartExceedsEnd(startNum, endNum) THEN ErrorOf(ErrStartGreater)
         ELSE IF TextPartsDiffer(startParts, endParts) THEN ErrorOf(ErrTextParts)
         ELSE LET padLength == MathMax(Len(startParts.numStr), Len(endParts.numStr))
              IN ResultOf(RangeLoop(startParts.prefix, startNum, endNum,
                                    padLength, startParts.suffix))

expandRange(start, end) ==
    LET startParts == parseSerial(start)
        endParts == parseSerial(end)
    IN
    IF MissingNumberPart(startParts, endParts) THEN ErrorOf(ErrInvalidFormat)
    ELSE IF TextPartsDiffer(startParts, endParts) THEN ErrorOf(ErrTextParts)
    ELSE LET startNum == ParseInt(startParts.numStr)
             endNum == ParseInt(endParts.numStr)
         IN
         IF StartExceedsEnd(startNum, endNum) THEN ErrorOf(ErrStartGreater)
         ELSE LET padLength == MathMax(Len(startParts.numStr), Len(endParts.numStr))
              IN ResultOf(RangeLoop(startParts.prefix, startNum, endNum,
                                    padLength, startParts.suffix))

\* ------------------------------------------------------------ resolvers
\* The cap of one bulk add: expanded.length > 1000
MaxBulkItems == 1000

\* The error of a processing result: null, a plain message, or the template
\* `Range is too large. ... but this range contains ${expanded.length}.`
\* with the interpolated length rendered by String().
NullError == [isNull |-> TRUE, text |-> "null", count |-> <<>>]

PlainError(msg) == [isNull |-> FALSE, text |-> msg, count |-> <<>>]

ErrRangeTooLarge ==
    "Range is too large. A maximum of 1000 items can be added at once, but this range contains ${expanded.length}."

RangeTooLargeError(length) ==
    [isNull |-> FALSE, text |-> ErrRangeTooLarge, count |-> String(length)]

ProcessingResult(serials, error) == [serials |-> serials, error |-> error]

\* Mutation of scannedSerialsProcessingResult: >= for > in the cap check.
scannedSerialsProcessingResultCapInclusive(category, newScannedItemDetails) ==
    IF category # "Meters" THEN ProcessingResult(<<>>, NullError)
    ELSE
    LET start == trim(newScannedItemDetails.firstSerial)
        end == trim(newScannedItemDetails.lastSerial)
    IN
    IF Len(start) = 0 \/ Len(end) = 0 THEN ProcessingResult(<<>>, NullError)
    ELSE LET expansion == expandRange(start, end) IN
         IF expansion.hasError THEN ProcessingResult(<<>>, PlainError(expansion.error))
         ELSE LET expanded == expansion.result IN
              IF Len(expanded) >= MaxBulkItems
              THEN ProcessingResult(<<>>, RangeTooLargeError(Len(expanded)))
              ELSE ProcessingResult(expanded, NullError)

ErrListTooLong ==
    "List is too long. A maximum of 1000 items can be added at once, but you have provided ${lines.length}."

ListTooLongError(length) ==
    [isNull |-> FALSE, text |-> ErrListTooLong, count |-> String(length)]

ErrDuplicates ==
    "The list contains duplicate serial numbers. Please ensure each is unique."

\* text.split('\n').map(line => line.trim()).filter(Boolean)
LinesOf(text) ==
    LET pieces == split(text)
        trimmed == [k \in 1..Len(pieces) |-> trim(pieces[k])]
    IN SelectSeq(trimmed, Truthy)

\* Mutation of SetSize: the lines are compared without regard to letter case.
SetSizeIgnoringCase(lines) ==
    Cardinality({[j \in 1..Len(lines[k]) |->
                    IF lines[k][j] = "a" THEN "A" ELSE lines[k][j]] : k \in 1..Len(lines)})

\* new Set(lines).size
SetSize(lines) == Cardinality({lines[k] : k \in 1..Len(lines)})

\* Mutation of serialsProcessingResult: duplicates are looked for before the
\* length of the list is checked.
serialsProcessingResultDuplicatesFirst(addMode, newItem) ==
    IF addMode = "range" THEN
    LET start == trim(newItem.firstSerial)
        end == trim(newItem.lastSerial)
    IN
    IF Len(start) = 0 \/ Len(end) = 0 THEN ProcessingResult(<<>>, NullError)
    ELSE LET expansion == expandRange(start, end) IN
         IF expansion.hasError THEN ProcessingResult(<<>>, PlainError(expansion.error))
         ELSE LET expanded == expansion.result IN
              IF Len(expanded) > MaxBulkItems
              THEN ProcessingResult(<<>>, RangeTooLargeError(Len(expanded)))
              ELSE ProcessingResult(expanded, NullError)
    ELSE
    LET text == newItem.barcodes IN
    IF ~Truthy(trim(text)) THEN ProcessingResult(<<>>, NullError)
    ELSE LET lines == LinesOf(text) IN
         IF SetSize(lines) # Len(lines)
         THEN ProcessingResult(<<>>, PlainError(ErrDuplicates))
         ELSE IF Len(lines) > MaxBulkItems
         THEN ProcessingResult(<<>>, ListTooLongError(Len(lines)))
         ELSE ProcessingResult(lines, NullError)

\* Mutation of serialsProcessingResult: a range over the cap is cut to the
\* cap and returned with the error.
serialsProcessingResultPartial(addMode, newItem) ==
    IF addMode = "range" THEN
    LET start == trim(newItem.firstSerial)
        end == trim(newItem.lastSerial)
    IN
    IF Len(start) = 0 \/ Len(end) = 0 THEN ProcessingResult(<<>>, NullError)
    ELSE LET expansion == expandRange(start, end) IN
         IF expansion.hasError THEN ProcessingResult(<<>>, PlainError(expansion.error))
         ELSE LET expanded == expansion.result IN
              IF Len(expanded) > MaxBulkItems
              THEN ProcessingResult(SubSeq(expanded, 1, MaxBulkItems),
                                    RangeTooLargeError(Len(expanded)))
              ELSE ProcessingResult(expanded, NullError)
    ELSE \* 'list' mode
    LET text == newItem.barcodes IN
    IF ~Truthy(trim(text)) THEN ProcessingResult(<<>>, NullError)
    ELSE LET lines == LinesOf(text) IN
         IF Len(lines) > MaxBulkItems
         THEN ProcessingResult(<<>>, ListTooLongError(Len(lines)))
         ELSE IF SetSize(lines) # Len(lines)
         THEN ProcessingResult(<<>>, PlainError(ErrDuplicates))
         ELSE ProcessingResult(lines, NullError)

serialsProcessingResult(addMode, newItem) ==
    IF addMode = "range" THEN
    LET start == trim(newItem.firstSerial)
        end == trim(newItem.lastSerial)
    IN
    IF Len(start) = 0 \/ Len(end) = 0 THEN ProcessingResult(<<>>, NullError)
    ELSE LET expansion == expandRange(start, end) IN
         IF expansion.hasError THEN ProcessingResult(<<>>, PlainError(expansion.error))
         ELSE LET expanded == expansion.result IN
              IF Len(expanded) > MaxBulkItems
              THEN ProcessingResult(<<>>, RangeTooLargeError(Len(expanded)))
              ELSE ProcessingResult(expanded, NullError)
    ELSE \* 'list' mode
    LET text == newItem.barcodes IN
    IF ~Truthy(trim(text)) THEN ProcessingResult(<<>>, NullError)
    ELSE LET lines == LinesOf(text) IN
         IF Len(lines) > MaxBulkItems
         THEN ProcessingResult(<<>>, ListTooLongError(Len(lines)))
         ELSE IF SetSize(lines) # Len(lines)
         THEN ProcessingResult(<<>>, PlainError(ErrDuplicates))
         ELSE ProcessingResult(lines, NullError)

\* StockCategory.METERS
METERS == "Meters"

\* Category of the selected item type; "undefined" when no type is found
Categories == {METERS, "Fittings", "undefined"}

scannedSerialsProcessingResult(category, newScannedItemDetails) ==
    IF category # METERS THEN ProcessingResult(<<>>, NullError)
    ELSE
    LET start == trim(newScannedItemDetails.firstSerial)
        end == trim(newScannedItemDetails.lastSerial)
    IN
    IF Len(start) = 0 \/ Len(end) = 0 THEN ProcessingResult(<<>>, NullError)
    ELSE LET expansion == expandRange(start, end) IN
         IF expansion.hasError THEN ProcessingResult(<<>>, PlainError(expansion.error))
         ELSE LET expanded == expansion.result IN
              IF Len(expanded) > MaxBulkItems
              THEN ProcessingResult(<<>>, RangeTooLargeError(Len(expanded)))
              ELSE ProcessingResult(expanded, NullError)

\* ------------------------------------------------------------ inputs
RECURSIVE StrsOfLen(_, _)
StrsOfLen(alphabet, n) ==
    IF n = 0 THEN {<<>>}
    ELSE {<<c>> \o s : c \in alphabet, s \in StrsOfLen(alphabet, n - 1)}

StrsUpTo(alphabet, n) == UNION {StrsOfLen(alphabet, k) : k \in 0..n}

Blanks(n) == [k \in 1..n |-> " "]

\* Every serial of at most MaxLen characters.
Serials == StrsUpTo(Chars, MaxLen)

\* Digit runs as long as the rendering of the cap, to reach counts around it.
CapSerials == StrsOfLen({"0", "1"}, Len(String(MaxBulkItems)))

\* Short serials typed with blanks around them.
BlankFields ==
    {Blanks(l) \o s \o Blanks(t) : s \in StrsUpTo(Chars, 1), l \in 0..MaxPad, t \in 0..MaxPad}

Fields == Serials \cup CapSerials \cup BlankFields

\* The characters typed into the list of serials, every text up to MaxText.
ListChars == {"A", "a", " ", "\n"}

\* n lines, the k-th the number k in four digits, each ended by a line feed;
\* with repeat, the last line repeats the first.
NumberedLines(n, repeat) ==
    [j \in 1..(5 * n) |->
        LET k == ((j - 1) \div 5) + 1
            col == ((j - 1) % 5) + 1
            v == IF repeat /\ k = n THEN 1 ELSE k
        IN IF col = 5 THEN "\n" ELSE DigitChars[((v \div (10 ^ (4 - col))) % 10) + 1]]

\* Lists of about MaxBulkItems lines, also led by a blank line.
LongTexts ==
    {lead \o NumberedLines(n, repeat) :
        lead \in {<<>>, <<" ", "\n">>},
        n \in (MaxBulkItems - 1)..(MaxBulkItems + 1),
        repeat \in BOOLEAN}

ListTexts == StrsUpTo(ListChars, MaxText) \cup LongTexts

\* ------------------------------------------------------------ state
VARIABLES
    firstSerial,   \* the first-serial argument / form field
    lastSerial,    \* the last-serial argument / form field
    pc,            \* which operation has been applied to the inputs
    expansion,     \* the value returned by expandRange
    processing,    \* the value of the resolver
    category,      \* category of the item type selected in the scan dialog
    serial,        \* the argument of the last parseSerial call
    parts,         \* the value returned by parseSerial
    addMode,       \* 'range' or 'list'
    barcodes,      \* the text of the list of serials
    frames,        \* the locals of the invocation of expandRange each caller is in
    history,       \* the invocations that have returned, in the order they returned
    budget,        \* how many more invocations may begin
    stockItems,    \* the rows of the stock_items table that belong to the user
    submissions,   \* the add-item, add-scanned-item and add-quantity handlers that are running
    rapidScan,     \* the rapid scan-out mode: its processing flag and its scan callbacks
    scanner,       \* the Scanner component in non-persistent mode
    assignment,    \* a stock item, its movements and the call of updateStockItemAssignment
    receiving,     \* the receive-stock dialog
    fetching,      \* the call of fetchStock
    toasts         \* the toasts on screen

vars == <<firstSerial, lastSerial, pc, expansion, processing, category, serial, parts,
          addMode, barcodes, frames, history, budget,
          stockItems, submissions, rapidScan, scanner, assignment, receiving, fetching, toasts>>

\* The variables of the bulk-add form outside the two serial fields
form == <<addMode, barcodes>>

NoExpansion == [hasError |-> FALSE, error |-> "undefined", hasResult |-> FALSE, result |-> <<>>]

\* The variables of the invocations that run step by step
calls == <<frames, history, budget>>

\* The variables of the application around the bulk-add form
app == <<stockItems, submissions, rapidScan, scanner, assignment, receiving, fetching, toasts>>

\* The variables of the expansion that is applied in one step, and those of
\* the application, which no step of an invocation touches
fields ==
    <<firstSerial, lastSerial, pc, expansion, processing, category, serial, parts, form, app>>

\* The variables of the bulk-add form and of the invocations
intake ==
    <<firstSerial, lastSerial, pc, expansion, processing, category, serial, parts, form, calls>>

\* Who invokes expandRange: the bulk-add form and the scan dialog
Callers == {1, 2}

\* How many serials the results array can hold before push throws, and how
\* many invocations one behaviour makes
HeapLimit == 1200

MaxCalls == 3

IdleFrame ==
    [pc |-> "idle", start |-> <<>>, end |-> <<>>, prefix |-> <<>>, suffix |-> <<>>,
     startNum |-> Num(0, 0), endNum |-> Num(0, 0), padLength |-> 0, i |-> Num(0, 0),
     results |-> <<>>, ret |-> NoExpansion, out |-> ProcessingResult(<<>>, NullError)]

\* Two sessions of the user that submit stock: browser tabs or devices
Submitters == {1, 2}

\* An item type: useState's selectedItemType, or none selected
NoItemType == [name |-> "", is_unique |-> FALSE, category |-> "undefined"]

ItemTypes ==
    { [name |-> "Meter", is_unique |-> TRUE, category |-> "Meters"],
      [name |-> "Bulk meter", is_unique |-> FALSE, category |-> "Meters"],
      [name |-> "Drill", is_unique |-> TRUE, category |-> "Tooling"],
      [name |-> "Elbow", is_unique |-> FALSE, category |-> "Fittings"] }

\* A handler that is not running
IdleSubmission ==
    [pc |-> "idle", handler |-> "none", type |-> NoItemType, serials |-> <<>>,
     barcode |-> <<>>, existing |-> {}, found |-> <<>>, itemsToAdd |-> <<>>,
     inserted |-> 0, error |-> "null", processingError |-> NullError]

NoStock == stockItems = <<>> /\ submissions = [s \in Submitters |-> IdleSubmission]

NoRapidScan == rapidScan = <<>>

NoScanner == scanner = <<>>

NoAssignment == assignment = <<>>

NoReceiving == receiving = <<>>

NoFetching == fetching = <<>>

NoToasts == toasts = <<>>

\* The application around the form at rest
AppIdle ==
    NoStock /\ NoRapidScan /\ NoScanner /\ NoAssignment /\ NoReceiving /\ NoFetching /\ NoToasts

NoCalls ==
    /\ frames = [c \in Callers |-> IdleFrame]
    /\ history = <<>>
    /\ budget = 0

Init ==
    /\ firstSerial \in Fields
    /\ lastSerial \in Fields
    /\ pc = "input"
    /\ expansion = NoExpansion
    /\ processing = ProcessingResult(<<>>, NullError)
    /\ category = "undefined"
    /\ serial = <<>>
    /\ parts = NullParts
    /\ addMode = "range"
    /\ barcodes = <<>>
    /\ NoCalls
    /\ AppIdle

\* The bulk-add form in list mode, with a text typed into it
InitList ==
    /\ firstSerial = <<>>
    /\ lastSerial = <<>>
    /\ pc = "input"
    /\ expansion = NoExpansion
    /\ processing = ProcessingResult(<<>>, NullError)
    /\ category = "undefined"
    /\ serial = <<>>
    /\ parts = NullParts
    /\ addMode = "list"
    /\ barcodes \in ListTexts
    /\ NoCalls
    /\ AppIdle

\* parseSerial(start) or parseSerial(end)
Parse ==
    /\ pc = "input"
    /\ \E s \in {firstSerial, lastSerial} :
        /\ serial' = s
        /\ parts' = parseSerial(s)
    /\ pc' = "parsed"
    /\ UNCHANGED <<firstSerial, lastSerial, expansion, processing, category, form, calls, app>>

\* expandRange(firstSerial, lastSerial)
Expand ==
    /\ pc = "input"
    /\ expansion' = expandRange(firstSerial, lastSerial)
    /\ pc' = "expanded"
    /\ UNCHANGED <<firstSerial, lastSerial, processing, category, serial, parts, form, calls, app>>

\* the manual bulk-add form recomputes serialsProcessingResult
ResolveManual ==
    /\ pc = "input"
    /\ processing' = serialsProcessingResult(addMode,
                        [firstSerial |-> firstSerial, lastSerial |-> lastSerial,
                         barcodes |-> barcodes])
    /\ pc' = "manual"
    /\ UNCHANGED <<firstSerial, lastSerial, expansion, category, serial, parts, form, calls, app>>

\* the scan dialog recomputes scannedSerialsProcessingResult
ResolveScanned ==
    /\ pc = "input"
    /\ \E c \in Categories :
        /\ category' = c
        /\ processing' = scannedSerialsProcessingResult(
                            c, [firstSerial |-> firstSerial, lastSerial |-> lastSerial])
    /\ pc' = "scanned"
    /\ UNCHANGED <<firstSerial, lastSerial, expansion, serial, parts, form, calls, app>>

Next == Parse \/ Expand \/ ResolveManual \/ ResolveScanned

Spec == Init /\ [][Next]_vars

NextList == ResolveManual

SpecList == InitList /\ [][NextList]_vars

\* ------------------------------------------------------------ invocations
\* expandRange run one loop iteration at a time, as the resolver of the
\* bulk-add form runs it in range mode: the call up to the loop, each
\* iteration, the return, and the resolver's test of the returned list.

\* Mutation of NewResults: the array of the previous invocation is kept.
NewResultsKept(frame) == frame.results

\* const results = []
NewResults(frame) == <<>>

\* Mutation of Push: one array is shared by the invocations in their loops.
PushShared(fs, c, element) ==
    [d \in Callers |->
        IF fs[d].pc = "loop" THEN [fs[d] EXCEPT !.results = Append(@, element)] ELSE fs[d]]

\* results.push(element) in the invocation of caller c
Push(fs, c, element) == [fs EXCEPT ![c].results = Append(@, element)]

\* prefix + String(i).padStart(padLength, '0') + suffix of a number i
SerialOf(prefix, i, padLength, suffix) ==
    prefix \o padStart(NumberString(i), padLength) \o suffix

Returned(frame, ret) == [frame EXCEPT !.pc = "returned", !.ret = ret]

Invocation(frame) == [start |-> frame.start, end |-> frame.end, ret |-> frame.ret]

\* Caller c has first and last in the two fields of the form in range mode:
\* the resolver trims them and returns at once if one is empty; otherwise it
\* calls expandRange, which runs up to its loop.
Call(c, first, last) ==
    LET start == trim(first)
        end == trim(last)
        startParts == parseSerial(start)
        endParts == parseSerial(end)
        entered == [IdleFrame EXCEPT !.start = start, !.end = end]
    IN
    /\ addMode = "range"
    /\ frames[c].pc \in {"idle", "resolved"}
    /\ budget > 0
    /\ budget' = budget - 1
    /\ LET frame ==
            IF Len(start) = 0 \/ Len(end) = 0
            THEN [entered EXCEPT !.pc = "resolved"]
            ELSE IF MissingNumberPart(startParts, endParts)
            THEN Returned(entered, ErrorOf(ErrInvalidFormat))
            ELSE IF TextPartsDiffer(startParts, endParts)
            THEN Returned(entered, ErrorOf(ErrTextParts))
            ELSE LET startNum == ParseNumber(startParts.numStr)
                     endNum == ParseNumber(endParts.numStr)
                 IN
                 IF NumGreater(startNum, endNum)
                 THEN Returned(entered, ErrorOf(ErrStartGreater))
                 ELSE [entered EXCEPT
                         !.pc = "loop",
                         !.prefix = startParts.prefix, !.suffix = startParts.suffix,
                         !.startNum = startNum, !.endNum = endNum,
                         !.padLength = MathMax(Len(startParts.numStr), Len(endParts.numStr)),
                         !.i = startNum,
                         !.results = NewResults(frames[c])]
       IN /\ frames' = [frames EXCEPT ![c] = frame]
          /\ history' = IF frame.pc = "returned"
                        THEN Append(history, Invocation(frame)) ELSE history
    /\ UNCHANGED fields

\* for (let i = startNum; i <= endNum; i++) { results.push(...) } return { result: results }
\* One test of the loop condition with the iteration or the return after it.
\* A push onto an array that cannot grow throws.
Iterate(c) ==
    LET frame == frames[c] IN
    /\ frame.pc = "loop"
    /\ IF NumAtMost(frame.i, frame.endNum)
       THEN IF Len(frame.results) >= HeapLimit
            THEN /\ frames' = [frames EXCEPT ![c].pc = "thrown"]
                 /\ UNCHANGED history
            ELSE /\ frames' = [Push(frames, c, SerialOf(frame.prefix, frame.i,
                                                        frame.padLength, frame.suffix))
                               EXCEPT ![c].i = Increment(frame.i)]
                 /\ UNCHANGED history
       ELSE /\ frames' = [frames EXCEPT ![c] = Returned(frame, ResultOf(frame.results))]
            /\ history' = Append(history, Invocation(frames'[c]))
    /\ UNCHANGED <<budget, fields>>

\* The resolver takes what expandRange returned: the error, or the list
\* unless expanded.length > 1000.
Resolve(c) ==
    LET returned == frames[c].ret IN
    /\ frames[c].pc = "returned"
    /\ frames' = [frames EXCEPT
            ![c].pc = "resolved",
            ![c].out =
                IF returned.hasError THEN ProcessingResult(<<>>, PlainError(returned.error))
                ELSE LET expanded == returned.result IN
                     IF Len(expanded) > MaxBulkItems
                     THEN ProcessingResult(<<>>, RangeTooLargeError(Len(expanded)))
                     ELSE ProcessingResult(expanded, NullError)]
    /\ UNCHANGED <<history, budget, fields>>

\* One invocation over endpoints at the cap and at the limit of exact numbers
StepSerials ==
    { <<"1">>, <<"1","0","0","0">>, <<"1","0","0","1">>,
      <<"9","0","0","7","1","9","9","2","5","4","7","4","0","9","9","1">>,
      <<"9","0","0","7","1","9","9","2","5","4","7","4","0","9","9","2">>,
      <<"9","0","0","7","1","9","9","2","5","4","7","4","0","9","9","3">> }

IdleFields ==
    /\ firstSerial = <<>>
    /\ lastSerial = <<>>
    /\ pc = "input"
    /\ expansion = NoExpansion
    /\ processing = ProcessingResult(<<>>, NullError)
    /\ category = "undefined"
    /\ serial = <<>>
    /\ parts = NullParts
    /\ addMode = "range"
    /\ barcodes = <<>>

InitSteps ==
    /\ IdleFields
    /\ frames = [c \in Callers |-> IdleFrame]
    /\ history = <<>>
    /\ budget = 1
    /\ AppIdle

NextSteps ==
    \/ \E first, last \in StepSerials : Call(1, first, last)
    \/ Iterate(1)
    \/ Resolve(1)

SpecSteps == InitSteps /\ [][NextSteps]_vars

\* Invocations by both callers, their iterations interleaved
CallSerials == { <<"A","1">>, <<"A","0","3">>, <<" ","1">> }

InitCalls ==
    /\ IdleFields
    /\ frames = [c \in Callers |-> IdleFrame]
    /\ history = <<>>
    /\ budget = MaxCalls
    /\ AppIdle

NextCalls ==
    \E c \in Callers :
        \/ \E first, last \in CallSerials : Call(c, first, last)
        \/ Iterate(c)
        \/ Resolve(c)

SpecCalls == InitCalls /\ [][NextCalls]_vars

\* The bulk-add form in either mode, resolved in one step or step by step
FormFields ==
    { <<>>, <<" ">>, <<"1">>, <<" ", "1", " ">>, <<"A">>, <<"A", "1">>, <<"A", "3">>,
      <<"1", "0", "0", "1">> }

InitForm ==
    /\ \/ /\ addMode = "range"
          /\ firstSerial \in FormFields
          /\ lastSerial \in FormFields
          /\ barcodes = <<>>
       \/ /\ addMode = "list"
          /\ firstSerial = <<>>
          /\ lastSerial = <<>>
          /\ barcodes \in ListTexts
    /\ pc = "input"
    /\ expansion = NoExpansion
    /\ processing = ProcessingResult(<<>>, NullError)
    /\ category = "undefined"
    /\ serial = <<>>
    /\ parts = NullParts
    /\ frames = [c \in Callers |-> IdleFrame]
    /\ history = <<>>
    /\ budget = 1
    /\ AppIdle

\* One run of a resolver in each behaviour
NextForm ==
    \/ frames[1].pc = "idle" /\ ResolveManual
    \/ frames[1].pc = "idle" /\ ResolveScanned
    \/ pc = "input" /\ Call(1, firstSerial, lastSerial)
    \/ Iterate(1)
    \/ Resolve(1)

SpecForm == InitForm /\ [][NextForm]_vars

\* ------------------------------------------------------------ adding stock
\* The handlers that add stock, each run from its first line to its first
\* backend call, and from one backend call to the next; the backend calls of
\* different sessions interleave.

\* parseInt(quantityStr, 10) of the value of a number input: digits or empty
parseIntQuantity(quantityStr) == IF Len(quantityStr) = 0 THEN NaN ELSE ParseInt(quantityStr)

\* serials.map(barcode => ({ name, description, barcode }))
ItemsOf(name, serials) ==
    [k \in 1..Len(serials) |-> [name |-> name, barcode |-> serials[k]]]

\* Array.from({ length: quantity }, () => ({ name, description, barcode }))
Copies(quantity, name, barcode) ==
    [k \in 1..quantity |-> [name |-> name, barcode |-> barcode]]

\* select('barcode').eq('user_id', user.id).in('barcode', barcodes) as a Set
getExistingBarcodes(rows, serials) ==
    {rows[j].barcode : j \in {k \in 1..Len(rows) :
                                \E i \in 1..Len(serials) : serials[i] = rows[k].barcode}}

\* select('*').eq('barcode', barcode).eq('user_id', user.id)
getStockItemsByBarcode(rows, barcode) ==
    LET Matches(row) == row.barcode = barcode IN SelectSeq(rows, Matches)

\* Mutation of AlreadyExist: one serial that exists is let through.
AlreadyExistSeveral(existingBarcodes) == Cardinality(existingBarcodes) > 1

\* if (existingBarcodes.size > 0)
AlreadyExist(existingBarcodes) == Cardinality(existingBarcodes) > 0

ErrSelectType == "Please select an item type from the dropdown."

ErrNoSerial == "Please provide at least one serial number for this unique item type."

ErrNoBarcode == "Please provide a serial number / barcode."

ErrQuantity == "Please enter a valid quantity."

ErrExist == "The following serial numbers already exist: ... No items were added."

ErrNoRange == "Please provide a valid serial number range."

ErrMultipleUnique == "Cannot add multiple unique items with the same serial number."

ErrExistsOne == "An item with serial number ... already exists."

ErrBackend == "backend error"

Failed(sub, message) == [sub EXCEPT !.pc = "failed", !.error = message]

\* if (itemsToAdd.length > 0) await bulkAddStockItems(itemsToAdd, ...); else the
\* handler closes its dialog.
ToInsert(sub, itemsToAdd) ==
    [sub EXCEPT !.pc = IF Len(itemsToAdd) > 0 THEN "insert" ELSE "done",
                !.itemsToAdd = itemsToAdd]

Begins(s) == submissions[s].pc = "idle"

\* What no handler that adds stock touches
exceptStock == <<intake, rapidScan, scanner, assignment, receiving, fetching, toasts>>

\* handleAddItem up to its first await
handleAddItem(s, selectedItemType, result, barcode, quantityStr) ==
    LET sub == [IdleSubmission EXCEPT !.handler = "handleAddItem", !.type = selectedItemType,
                                      !.serials = result.serials, !.barcode = barcode,
                                      !.processingError = result.error]
        quantity == parseIntQuantity(quantityStr)
    IN
    /\ Begins(s)
    /\ submissions' = [submissions EXCEPT ![s] =
          IF selectedItemType = NoItemType THEN Failed(sub, ErrSelectType)
          ELSE IF selectedItemType.is_unique
          THEN IF Len(result.serials) = 0 THEN Failed(sub, ErrNoSerial)
               ELSE IF ~result.error.isNull THEN Failed(sub, result.error.text)
               ELSE [sub EXCEPT !.pc = "lookup"]
          ELSE IF ~Truthy(trim(barcode)) THEN Failed(sub, ErrNoBarcode)
               ELSE IF isNaN(quantity) \/ quantity < 1 THEN Failed(sub, ErrQuantity)
               ELSE ToInsert(sub, Copies(quantity, selectedItemType.name, trim(barcode)))]
    /\ UNCHANGED <<stockItems, exceptStock>>

\* handleAddScannedItem up to its first await
handleAddScannedItem(s, selectedItemType, result, barcode, quantityStr) ==
    LET sub == [IdleSubmission EXCEPT !.handler = "handleAddScannedItem",
                                      !.type = selectedItemType,
                                      !.serials = result.serials, !.barcode = barcode,
                                      !.processingError = result.error]
        isMeterType == selectedItemType.category = METERS
        parsed == parseIntQuantity(quantityStr)
        quantity == IF isNaN(parsed) \/ parsed = 0 THEN 1 ELSE parsed
    IN
    /\ Begins(s)
    /\ submissions' = [submissions EXCEPT ![s] =
          IF selectedItemType = NoItemType THEN Failed(sub, "Please select an item type.")
          ELSE IF isMeterType
          THEN IF ~result.error.isNull THEN Failed(sub, result.error.text)
               ELSE IF Len(result.serials) = 0 THEN Failed(sub, ErrNoRange)
               ELSE IF selectedItemType.is_unique THEN [sub EXCEPT !.pc = "lookup"]
               ELSE ToInsert(sub, ItemsOf(selectedItemType.name, result.serials))
          ELSE IF selectedItemType.is_unique
               THEN IF quantity > 1 THEN Failed(sub, ErrMultipleUnique)
                    ELSE [sub EXCEPT !.pc = "lookupOne",
                                     !.itemsToAdd = Copies(quantity, selectedItemType.name, barcode)]
               ELSE ToInsert(sub, Copies(quantity, selectedItemType.name, barcode))]
    /\ UNCHANGED <<stockItems, exceptStock>>

\* handleConfirmAddQuantity up to its await
handleConfirmAddQuantity(s, itemForQuantityAdd, quantityToAdd) ==
    LET sub == [IdleSubmission EXCEPT !.handler = "handleConfirmAddQuantity",
                                      !.barcode = itemForQuantityAdd.barcode]
        quantity == parseIntQuantity(quantityToAdd)
    IN
    /\ Begins(s)
    /\ submissions' = [submissions EXCEPT ![s] =
          IF isNaN(quantity) \/ quantity < 1 THEN Failed(sub, ErrQuantity)
          ELSE [sub EXCEPT !.pc = "insert",
                           !.itemsToAdd = Copies(quantity, itemForQuantityAdd.name,
                                                 itemForQuantityAdd.barcode)]]
    /\ UNCHANGED <<stockItems, exceptStock>>

\* await getExistingBarcodes(barcodes) returns or throws
Lookup(s) ==
    LET sub == submissions[s] IN
    /\ sub.pc = "lookup"
    /\ \E ok \in BOOLEAN :
        submissions' = [submissions EXCEPT ![s] =
            IF ~ok THEN Failed(sub, ErrBackend)
            ELSE LET existingBarcodes == getExistingBarcodes(stockItems, sub.serials)
                     looked == [sub EXCEPT !.existing = existingBarcodes]
                 IN IF AlreadyExist(existingBarcodes) THEN Failed(looked, ErrExist)
                    ELSE ToInsert(looked, ItemsOf(sub.type.name, sub.serials))]
    /\ UNCHANGED <<stockItems, exceptStock>>

\* await getStockItemsByBarcode(newScannedItemDetails.barcode) returns or throws
LookupOne(s) ==
    LET sub == submissions[s] IN
    /\ sub.pc = "lookupOne"
    /\ \E ok \in BOOLEAN :
        submissions' = [submissions EXCEPT ![s] =
            IF ~ok THEN Failed(sub, ErrBackend)
            ELSE LET existing == getStockItemsByBarcode(stockItems, sub.barcode)
                     looked == [sub EXCEPT !.found = existing]
                 IN IF Len(existing) > 0 THEN Failed(looked, ErrExistsOne)
                    ELSE ToInsert(looked, sub.itemsToAdd)]
    /\ UNCHANGED <<stockItems, exceptStock>>

\* await bulkAddStockItems(itemsToAdd, ...): supabase.from('stock_items').insert(newItems)
\* inserts every row or, on error, none; then the handler closes its dialog
bulkAddStockItems(s) ==
    LET sub == submissions[s] IN
    /\ sub.pc = "insert"
    /\ \E ok \in BOOLEAN :
        IF ok
        THEN /\ stockItems' = stockItems \o sub.itemsToAdd
             /\ submissions' = [submissions EXCEPT ![s] =
                    [sub EXCEPT !.pc = "done", !.inserted = Len(sub.itemsToAdd)]]
        ELSE /\ submissions' = [submissions EXCEPT ![s] = Failed(sub, ErrBackend)]
             /\ UNCHANGED stockItems
    /\ UNCHANGED exceptStock

\* What a form hands to its handler
StockSerials == { <<>>, <<"A", "1">>, <<"A", "2">>, <<"A">> }

StockBarcodes == { <<"A", "1">>, <<" ">> }

Quantities == { <<>>, <<"0">>, <<"2">>, String(MaxBulkItems + 1) }

ManualResults ==
    { serialsProcessingResult("range", [firstSerial |-> f, lastSerial |-> l, barcodes |-> <<>>]) :
        f \in StockSerials, l \in StockSerials }

ScannedResults(type) ==
    { scannedSerialsProcessingResult(type.category, [firstSerial |-> f, lastSerial |-> l]) :
        f \in StockSerials, l \in StockSerials }

\* The stock when the sessions open
StartingStock ==
    { <<>>, <<[name |-> "Meter", barcode |-> <<"A", "1">>]>>,
      <<[name |-> "Elbow", barcode |-> <<"A", "1">>]>> }

InitStock ==
    /\ IdleFields
    /\ NoCalls
    /\ stockItems \in StartingStock
    /\ submissions = [s \in Submitters |-> IdleSubmission]
    /\ NoRapidScan /\ NoScanner /\ NoAssignment /\ NoReceiving /\ NoFetching /\ NoToasts

AddItem ==
    \E s \in Submitters, type \in ItemTypes \cup {NoItemType} :
        \/ \E result \in ManualResults :
              type.is_unique /\ handleAddItem(s, type, result, <<>>, <<"1">>)
        \/ \E barcode \in StockBarcodes, quantityStr \in Quantities :
              ~type.is_unique
              /\ handleAddItem(s, type, ProcessingResult(<<>>, NullError), barcode, quantityStr)

AddScannedItem ==
    \E s \in Submitters, type \in ItemTypes \cup {NoItemType} :
        \E result \in ScannedResults(type), quantityStr \in Quantities :
            handleAddScannedItem(s, type, result, <<"A", "1">>, quantityStr)

\* The add-quantity dialog is opened by a scan of a barcode that is in stock
\* and whose item type is not unique; it holds the first row found.
ConfirmAddQuantity ==
    \E s \in Submitters, quantityToAdd \in Quantities :
        \E item \in {stockItems[k] : k \in 1..Len(stockItems)} :
            /\ \E type \in ItemTypes : type.name = item.name /\ ~type.is_unique
            /\ handleConfirmAddQuantity(s, item, quantityToAdd)

AwaitLookup == \E s \in Submitters : Lookup(s)

AwaitLookupOne == \E s \in Submitters : LookupOne(s)

AwaitInsert == \E s \in Submitters : bulkAddStockItems(s)

NextStock ==
    \/ AddItem
    \/ AddScannedItem
    \/ ConfirmAddQuantity
    \/ AwaitLookup
    \/ AwaitLookupOne
    \/ AwaitInsert

SpecStock == InitStock /\ [][NextStock]_vars

\* ------------------------------------------------------------ rapid scan-out
\* handleScanSuccess in 'out-rapid' mode: each barcode the scanner reads calls
\* it; the calls run up to their awaits and interleave there.
MaxScans == 3

ScanIds == 1..MaxScans

IdleScan == [pc |-> "idle", queried |-> FALSE, assigned |-> FALSE, outcome |-> "none"]

exceptRapid ==
    <<intake, stockItems, submissions, scanner, assignment, receiving, fetching, toasts>>

\* Mutation of Busy: the flag is not looked at.
BusyNever(isProcessingScan) == FALSE

\* if (isProcessingScanRef.current)
Busy(isProcessingScan) == isProcessingScan

SetScan(c, scan) == [rapidScan EXCEPT !.scans[c] = scan]

\* The callback is called: it returns if a scan is being processed, otherwise
\* it sets the flag and awaits getStockItemsByBarcode(decodedText)
ScanArrives(c) ==
    LET scan == rapidScan.scans[c] IN
    /\ scan.pc = "idle"
    /\ rapidScan' =
          IF Busy(rapidScan.isProcessingScan)
          THEN SetScan(c, [scan EXCEPT !.pc = "ignored"])
          ELSE [SetScan(c, [scan EXCEPT !.pc = "query", !.queried = TRUE])
                  EXCEPT !.isProcessingScan = TRUE]
    /\ UNCHANGED exceptRapid

\* getStockItemsByBarcode settles: it throws, or no unassigned item is found,
\* or one is and updateStockItemAssignment is awaited; the first two reach
\* finally, which sets the timer of 250 ms
ScanQueried(c) ==
    LET scan == rapidScan.scans[c] IN
    /\ scan.pc = "query"
    /\ \E found \in {"throws", "none", "item"} :
        rapidScan' = SetScan(c,
            IF found = "throws" THEN [scan EXCEPT !.pc = "timer", !.outcome = "error"]
            ELSE IF found = "none" THEN [scan EXCEPT !.pc = "timer", !.outcome = "not in stock"]
            ELSE [scan EXCEPT !.pc = "assign", !.assigned = TRUE])
    /\ UNCHANGED exceptRapid

\* updateStockItemAssignment settles: it throws, or refetchStock is awaited
ScanAssigned(c) ==
    LET scan == rapidScan.scans[c] IN
    /\ scan.pc = "assign"
    /\ \E ok \in BOOLEAN :
        rapidScan' = SetScan(c,
            IF ok THEN [scan EXCEPT !.pc = "refetch", !.outcome = "success"]
            ELSE [scan EXCEPT !.pc = "timer", !.outcome = "error"])
    /\ UNCHANGED exceptRapid

\* refetchStock settles (fetchStock catches its own errors); finally sets the timer
ScanRefetched(c) ==
    LET scan == rapidScan.scans[c] IN
    /\ scan.pc = "refetch"
    /\ rapidScan' = SetScan(c, [scan EXCEPT !.pc = "timer"])
    /\ UNCHANGED exceptRapid

\* setTimeout(() => { isProcessingScanRef.current = false; }, 250) fires
ScanTimer(c) ==
    LET scan == rapidScan.scans[c] IN
    /\ scan.pc = "timer"
    /\ rapidScan' = [SetScan(c, [scan EXCEPT !.pc = "done"]) EXCEPT !.isProcessingScan = FALSE]
    /\ UNCHANGED exceptRapid

InitRapid ==
    /\ IdleFields
    /\ NoCalls
    /\ rapidScan = [isProcessingScan |-> FALSE, scans |-> [c \in ScanIds |-> IdleScan]]
    /\ NoStock /\ NoScanner /\ NoAssignment /\ NoReceiving /\ NoFetching /\ NoToasts

Arrives == \E c \in ScanIds : ScanArrives(c)

Queried == \E c \in ScanIds : ScanQueried(c)

Assigned == \E c \in ScanIds : ScanAssigned(c)

Refetched == \E c \in ScanIds : ScanRefetched(c)

TimerFires == \E c \in ScanIds : ScanTimer(c)

NextRapid == Arrives \/ Queried \/ Assigned \/ Refetched \/ TimerFires

\* Every backend call settles and every timer fires
SpecRapid ==
    /\ InitRapid /\ [][NextRapid]_vars
    /\ WF_vars(Queried) /\ WF_vars(Assigned) /\ WF_vars(Refetched) /\ WF_vars(TimerFires)

\* ------------------------------------------------------------ Scanner
\* The Scanner component in non-persistent mode, from the moment startScan
\* has resolved: barcodeScanned events call the listener, the effect's
\* cleanup runs at unmount, and each runs stopScanner up to its awaits.
MaxEvents == 3

\* The runs of stopScanner: one per barcodeScanned event, and 0 for the cleanup
Events == 1..MaxEvents

Cleanup == 0

exceptScanner ==
    <<intake, stockItems, submissions, rapidScan, assignment, receiving, fetching, toasts>>

SetRun(p, at) == [scanner EXCEPT !.runs[p] = at]

\* stopScanner up to its first await: if (listener) await listener.remove();
\* else await BarcodeScannerRef.current.stopScan()
stopScannerBegins(sc, p) ==
    [sc EXCEPT !.runs[p] = IF sc.listener THEN "remove" ELSE "stop"]

\* A barcodeScanned event calls the listener
barcodeScanned(e) ==
    /\ scanner.runs[e] = "idle"
    /\ scanner.registered
    /\ scanner' =
          IF ~scanner.isMounted THEN SetRun(e, "returned")
          ELSE IF scanner.hasFired THEN SetRun(e, "returned")
          ELSE stopScannerBegins([scanner EXCEPT !.hasFired = TRUE], e)
    /\ UNCHANGED exceptScanner

\* await listener.remove() settles: listener = null and stopScan is awaited,
\* or the rejection is caught and stopScanner ends
listenerRemoved(p) ==
    /\ scanner.runs[p] = "remove"
    /\ \E ok \in BOOLEAN :
        scanner' =
            IF ok
            THEN [scanner EXCEPT !.listener = FALSE, !.registered = FALSE, !.runs[p] = "stop"]
            ELSE [scanner EXCEPT !.runs[p] = "stopped"]
    /\ UNCHANGED exceptScanner

\* await BarcodeScannerRef.current.stopScan() settles; a rejection is caught
stopScanSettles(p) ==
    /\ scanner.runs[p] = "stop"
    /\ \E ok \in BOOLEAN :
        scanner' =
            IF ok THEN [scanner EXCEPT !.scanning = FALSE, !.runs[p] = "stopped"]
            ELSE [scanner EXCEPT !.runs[p] = "stopped"]
    /\ UNCHANGED exceptScanner

\* after await stopScanner(): onScanSuccessRef.current(result.barcode.displayValue)
onScanSuccess(e) ==
    /\ e \in Events
    /\ scanner.runs[e] = "stopped"
    /\ scanner' = [scanner EXCEPT !.runs[e] = "delivered",
                                  !.delivered = @ + 1,
                                  !.scanningAtDelivery = scanner.scanning]
    /\ UNCHANGED exceptScanner

\* The effect's cleanup: isMounted = false; if (!hasFired) stopScanner()
Unmount ==
    /\ scanner.isMounted
    /\ scanner' =
          IF ~scanner.hasFired
          THEN stopScannerBegins([scanner EXCEPT !.isMounted = FALSE], Cleanup)
          ELSE [scanner EXCEPT !.isMounted = FALSE]
    /\ UNCHANGED exceptScanner

InitScanner ==
    /\ IdleFields
    /\ NoCalls
    /\ scanner = [isMounted |-> TRUE, hasFired |-> FALSE, listener |-> TRUE,
                  registered |-> TRUE, scanning |-> TRUE, delivered |-> 0,
                  scanningAtDelivery |-> FALSE,
                  runs |-> [p \in Events \cup {Cleanup} |-> "idle"]]
    /\ NoStock /\ NoRapidScan /\ NoAssignment /\ NoReceiving /\ NoFetching /\ NoToasts

Scanned == \E e \in Events : barcodeScanned(e)

Removed == \E p \in Events \cup {Cleanup} : listenerRemoved(p)

Stopped == \E p \in Events \cup {Cleanup} : stopScanSettles(p)

Delivered == \E e \in Events : onScanSuccess(e)

NextScanner == Scanned \/ Removed \/ Stopped \/ Delivered \/ Unmount

SpecScanner == InitScanner /\ [][NextScanner]_vars

\* ------------------------------------------------------------ updateStockItemAssignment
\* One stock item, the stock_movements written for it, and calls of
\* updateStockItemAssignment made one after another, each run from one
\* backend call to the next.
MaxAssignments == 2

\* Team.UNASSIGNED
UNASSIGNED == "Unassigned"

Teams == {UNASSIGNED, "Team A", "Team B"}

Locations == {"Leading Stores", "Secondary Store"}

exceptAssignment ==
    <<intake, stockItems, submissions, rapidScan, scanner, receiving, fetching, toasts>>

NoMovement == [movement_type |-> "none", location_from |-> "", location_to |-> ""]

\* Mutation of MovementFor: an OUT movement for every assignment to a team.
MovementForAnyTeam(oldAssignedTo, oldLocation, assigned_to, location) ==
    IF assigned_to # UNASSIGNED
    THEN [movement_type |-> "OUT", location_from |-> oldLocation, location_to |-> assigned_to]
    ELSE IF oldAssignedTo # UNASSIGNED /\ assigned_to = UNASSIGNED
    THEN [movement_type |-> "IN", location_from |-> oldAssignedTo, location_to |-> location]
    ELSE NoMovement

\* let movement = null; if (...) { OUT } else if (...) { IN }
MovementFor(oldAssignedTo, oldLocation, assigned_to, location) ==
    IF oldAssignedTo = UNASSIGNED /\ assigned_to # UNASSIGNED
    THEN [movement_type |-> "OUT", location_from |-> oldLocation, location_to |-> assigned_to]
    ELSE IF oldAssignedTo # UNASSIGNED /\ assigned_to = UNASSIGNED
    THEN [movement_type |-> "IN", location_from |-> oldAssignedTo, location_to |-> location]
    ELSE NoMovement

IdleAssign ==
    [pc |-> "idle", location |-> "", assigned_to |-> "", oldAssignedTo |-> "",
     oldLocation |-> "", movement |-> NoMovement, moveError |-> FALSE,
     before |-> [assigned_to |-> "", location |-> ""]]

\* updateStockItemAssignment(itemId, location, assigned_to, assignerName) is
\* called and awaits getUser and the select of the item
AssignCalled ==
    /\ assignment.call.pc \in {"idle", "returned", "thrown"}
    /\ assignment.calls < MaxAssignments
    /\ \E location \in Locations, assigned_to \in Teams :
        assignment' = [assignment EXCEPT
            !.calls = @ + 1,
            !.call = [IdleAssign EXCEPT !.pc = "select", !.location = location,
                                        !.assigned_to = assigned_to]]
    /\ UNCHANGED exceptAssignment

\* The user and the item are read, or one of the reads fails and the call throws
AssignSelected ==
    /\ assignment.call.pc = "select"
    /\ \E ok \in BOOLEAN :
        assignment' = [assignment EXCEPT !.call =
            IF ok THEN [@ EXCEPT !.pc = "update",
                                 !.oldAssignedTo = assignment.item.assigned_to,
                                 !.oldLocation = assignment.item.location]
            ELSE [@ EXCEPT !.pc = "thrown"]]
    /\ UNCHANGED exceptAssignment

\* update({ location, assigned_to, ... }).eq('id', itemId) settles; on success
\* the movement is chosen and, if there is one, its insert is awaited
AssignUpdated ==
    LET call == assignment.call
        movement == MovementFor(call.oldAssignedTo, call.oldLocation,
                                call.assigned_to, call.location)
    IN
    /\ call.pc = "update"
    /\ \E ok \in BOOLEAN :
        assignment' =
            IF ok
            THEN [assignment EXCEPT
                    !.item = [assigned_to |-> call.assigned_to, location |-> call.location],
                    !.call = [@ EXCEPT !.pc = IF movement = NoMovement THEN "fetch" ELSE "insert",
                                       !.movement = movement,
                                       !.before = assignment.item]]
            ELSE [assignment EXCEPT !.call = [@ EXCEPT !.pc = "thrown"]]
    /\ UNCHANGED exceptAssignment

\* from('stock_movements').insert(movement) settles; an error is only logged
AssignMoved ==
    /\ assignment.call.pc = "insert"
    /\ \E ok \in BOOLEAN :
        assignment' =
            IF ok
            THEN [assignment EXCEPT !.movements = Append(@, assignment.call.movement),
                                    !.call = [@ EXCEPT !.pc = "fetch"]]
            ELSE [assignment EXCEPT !.call = [@ EXCEPT !.pc = "fetch", !.moveError = TRUE]]
    /\ UNCHANGED exceptAssignment

\* await fetchStock() settles and the call returns
AssignReturned ==
    /\ assignment.call.pc = "fetch"
    /\ assignment' = [assignment EXCEPT !.call = [@ EXCEPT !.pc = "returned"]]
    /\ UNCHANGED exceptAssignment

InitAssignment ==
    /\ IdleFields
    /\ NoCalls
    /\ \E assigned_to \in Teams, location \in Locations :
        assignment = [item |-> [assigned_to |-> assigned_to, location |-> location],
                      movements |-> <<>>, calls |-> 0, call |-> IdleAssign]
    /\ NoStock /\ NoRapidScan /\ NoScanner /\ NoReceiving /\ NoFetching /\ NoToasts

NextAssignment ==
    AssignCalled \/ AssignSelected \/ AssignUpdated \/ AssignMoved \/ AssignReturned

SpecAssignment == InitAssignment /\ [][NextAssignment]_vars

\* ------------------------------------------------------------ ReceiveStockModal
\* One outstanding item of the purchase order in the receive-stock dialog
MaxOutstanding == 4

exceptReceiving ==
    <<intake, stockItems, submissions, rapidScan, scanner, assignment, fetching, toasts>>

\* Math.max(0, Math.min(newQuantity, outstanding)); NaN if newQuantity is NaN
cappedQuantityOf(newQuantity, outstanding) ==
    IF isNaN(newQuantity) THEN NaN
    ELSE LET least == IF newQuantity < outstanding THEN newQuantity ELSE outstanding
         IN IF least > 0 THEN least ELSE 0

\* Array(cappedQuantity).fill('').map((s, i) => prev[itemId]?.serials[i] || '')
resizedSerials(serials, cappedQuantity) ==
    [i \in 1..cappedQuantity |-> IF i <= Len(serials) THEN serials[i] ELSE <<>>]

\* What is typed into the quantity input: digits, or nothing
QuantityTexts == {<<>>} \cup {String(n) : n \in 0..(MaxOutstanding + 1)}

\* onChange of the quantity input: handleQuantityChange(item.id, parseInt(e.target.value, 10));
\* Array(NaN) throws a RangeError inside the state updater
handleQuantityChange ==
    /\ ~receiving.crashed
    /\ \E text \in QuantityTexts :
        LET newQuantity == parseIntQuantity(text)
            cappedQuantity == cappedQuantityOf(newQuantity, receiving.outstanding)
        IN receiving' =
              IF receiving.is_unique
              THEN IF isNaN(cappedQuantity) THEN [receiving EXCEPT !.crashed = TRUE]
                   ELSE [receiving EXCEPT !.quantity = cappedQuantity,
                                          !.serials = resizedSerials(receiving.serials,
                                                                     cappedQuantity)]
              ELSE [receiving EXCEPT !.quantity = cappedQuantity, !.serials = <<>>]
    /\ UNCHANGED exceptReceiving

\* onChange of a serial input, or a scan for it: handleSerialChange(itemId, i, value)
handleSerialChange ==
    /\ ~receiving.crashed
    /\ \E serialIndex \in 1..Len(receiving.serials), value \in {<<>>, <<"S">>} :
        receiving' = [receiving EXCEPT !.serials[serialIndex] = value]
    /\ UNCHANGED exceptReceiving

\* useState(() => outstandingItems.reduce(...)): quantity is what is
\* outstanding, with as many empty serials for a unique item type
InitReceiving ==
    /\ IdleFields
    /\ NoCalls
    /\ \E outstanding \in 1..MaxOutstanding, is_unique \in BOOLEAN :
        receiving = [outstanding |-> outstanding, is_unique |-> is_unique,
                     quantity |-> outstanding,
                     serials |-> IF is_unique THEN [i \in 1..outstanding |-> <<>>] ELSE <<>>,
                     crashed |-> FALSE]
    /\ NoStock /\ NoRapidScan /\ NoScanner /\ NoAssignment /\ NoFetching /\ NoToasts

NextReceiving == handleQuantityChange \/ handleSerialChange

SpecReceiving == InitReceiving /\ [][NextReceiving]_vars

\* ------------------------------------------------------------ fetchStock
\* One call of fetchStock over a table of rows 1..rows, newest first, run
\* from one await to the next.
MaxRows == 2001

\* const pageSize = 1000
pageSize == 1000

exceptFetching ==
    <<intake, stockItems, submissions, rapidScan, scanner, assignment, receiving, toasts>>

\* .range(page * pageSize, (page + 1) * pageSize - 1) of the user's rows
rangeOf(rows, page) ==
    LET from == page * pageSize
        to == (page + 1) * pageSize - 1
        last == IF to < rows - 1 THEN to ELSE rows - 1
    IN [k \in 1..(last - from + 1) |-> from + k]

\* Mutation of LastPage: a full page ends the loop as well.
LastPageOrFull(data) == Len(data) <= pageSize

\* if (data.length < pageSize) hasMore = false
LastPage(data) == Len(data) < pageSize

\* catch: setStock([]); finally: setLoading(false)
Caught(f) == [f EXCEPT !.pc = "done", !.stock = <<>>, !.loading = FALSE, !.failed = TRUE]

\* fetchStock(): setLoading(true), await getUser()
fetchStock ==
    /\ fetching.pc = "idle"
    /\ fetching' = [fetching EXCEPT !.pc = "user", !.loading = TRUE]
    /\ UNCHANGED exceptFetching

\* getUser settles: no user throws
fetchUser ==
    /\ fetching.pc = "user"
    /\ \E user \in BOOLEAN :
        fetching' = IF user THEN [fetching EXCEPT !.pc = "page"] ELSE Caught(fetching)
    /\ UNCHANGED exceptFetching

\* One turn of while (hasMore): the page settles with an error, with no
\* data, or with its rows; when hasMore is false setStock(allItems) follows.
fetchPage ==
    /\ fetching.pc = "page"
    /\ \E settled \in {"error", "null", "data"} :
        fetching' =
            IF settled = "error" THEN Caught(fetching)
            ELSE LET data == IF settled = "null" THEN <<>>
                             ELSE rangeOf(fetching.rows, fetching.page)
                     allItems == fetching.allItems \o data
                     hasMore == Len(data) > 0 /\ ~LastPage(data)
                     pages == Append(fetching.pages, Len(data))
                 IN IF hasMore
                    THEN [fetching EXCEPT !.allItems = allItems, !.pages = pages,
                                          !.page = @ + 1]
                    ELSE [fetching EXCEPT !.allItems = allItems, !.pages = pages,
                                          !.pc = "done", !.stock = allItems,
                                          !.loading = FALSE,
                                          !.cut = settled = "null"]
    /\ UNCHANGED exceptFetching

InitFetching ==
    /\ IdleFields
    /\ NoCalls
    /\ \E rows \in 0..MaxRows, loaded \in BOOLEAN :
        fetching = [rows |-> rows, pc |-> "idle", page |-> 0, allItems |-> <<>>,
                    pages |-> <<>>, failed |-> FALSE, cut |-> FALSE,
                    stock |-> IF loaded THEN <<1>> ELSE <<>>, loading |-> ~loaded]
    /\ NoStock /\ NoRapidScan /\ NoScanner /\ NoAssignment /\ NoReceiving /\ NoToasts

NextFetching == fetchStock \/ fetchUser \/ fetchPage

\* Every awaited backend call settles
SpecFetching ==
    /\ InitFetching /\ [][NextFetching]_vars
    /\ WF_vars(fetchUser) /\ WF_vars(fetchPage)

\* ------------------------------------------------------------ toasts
\* toasts.list is the toasts state, newest first; toasts.timers the ids whose
\* 3500 ms timer has not fired; toasts.nextId the next id (ids are distinct
\* and increase with time).
MaxToasts == 5

\* const TOAST_LIMIT = 3
TOAST_LIMIT == 3

exceptToasts ==
    <<intake, stockItems, submissions, rapidScan, scanner, assignment, receiving, fetching>>

\* Mutation of UnderLimit: one toast more is kept visible.
UnderLimitOrAt(visibleCount) == visibleCount <= TOAST_LIMIT

\* visibleCount < TOAST_LIMIT
UnderLimit(visibleCount) == visibleCount < TOAST_LIMIT

\* updatedToasts.map(toast => ...) from index k on, with the running visibleCount
RECURSIVE finalToasts(_, _, _)
finalToasts(updatedToasts, k, visibleCount) ==
    IF k > Len(updatedToasts) THEN <<>>
    ELSE LET toast == updatedToasts[k]
         IN IF toast.status # "exiting" /\ UnderLimit(visibleCount)
            THEN <<toast>> \o finalToasts(updatedToasts, k + 1, visibleCount + 1)
            ELSE IF toast.status # "exiting"
            THEN <<[toast EXCEPT !.status = "exiting"]>>
                     \o finalToasts(updatedToasts, k + 1, visibleCount)
            ELSE <<toast>> \o finalToasts(updatedToasts, k + 1, visibleCount)

\* addToast(message, type, barcode): the new toast goes to the front, the
\* list is re-marked, the timer of the new id is set
addToast ==
    /\ toasts.nextId <= MaxToasts
    /\ LET id == toasts.nextId
           newToast == [id |-> id, status |-> "entering"]
       IN toasts' = [list |-> finalToasts(<<newToast>> \o toasts.list, 1, 0),
                     timers |-> toasts.timers \cup {id},
                     nextId |-> id + 1]
    /\ UNCHANGED exceptToasts

\* setTimeout(..., 3500) of toast id fires
toastTimer(id) ==
    /\ id \in toasts.timers
    /\ toasts' = [toasts EXCEPT
                    !.timers = @ \ {id},
                    !.list = [k \in 1..Len(@) |->
                                 IF @[k].id = id THEN [@[k] EXCEPT !.status = "exiting"]
                                 ELSE @[k]]]
    /\ UNCHANGED exceptToasts

\* onAnimationEnd of an exiting toast: prev.filter(t => t.id !== toast.id)
toastAnimationEnd(k) ==
    /\ k \in 1..Len(toasts.list)
    /\ toasts.list[k].status = "exiting"
    /\ toasts' = [toasts EXCEPT
                    !.list = SubSeq(@, 1, k - 1) \o SubSeq(@, k + 1, Len(@))]
    /\ UNCHANGED exceptToasts

\* handleCancelScan, entering rapid scan-out: setToasts([])
clearToasts ==
    /\ toasts.list # <<>>
    /\ toasts' = [toasts EXCEPT !.list = <<>>]
    /\ UNCHANGED exceptToasts

InitToasts ==
    /\ IdleFields
    /\ NoCalls
    /\ toasts = [list |-> <<>>, timers |-> {}, nextId |-> 1]
    /\ NoStock /\ NoRapidScan /\ NoScanner /\ NoAssignment /\ NoReceiving /\ NoFetching

ToastExpires == \E id \in 1..MaxToasts : toastTimer(id)

AnimationEnds == \E k \in 1..MaxToasts : toastAnimationEnd(k)

NextToasts == addToast \/ ToastExpires \/ AnimationEnds \/ clearToasts

SpecToasts == InitToasts /\ [][NextToasts]_vars

\* ------------------------------------------------------------ properties
\* What the properties below say about a serial is stated from the serial
\* itself: its last maximal digit run by position, the run's value by place
\* value, and a padded number digit by digit.

HasDigit(s) == \E k \in 1..Len(s) : s[k] \in Digits

\* Position of the last digit of s, and of the first digit of the run it ends.
RunEnd(s) ==
    CHOOSE b \in 1..Len(s) : s[b] \in Digits /\ \A j \in (b + 1)..Len(s) : s[j] \notin Digits

RunStart(s) ==
    CHOOSE a \in 1..RunEnd(s) :
        /\ \A j \in a..RunEnd(s) : s[j] \in Digits
        /\ a = 1 \/ s[a - 1] \notin Digits

PrefixOf(s) == SubSeq(s, 1, RunStart(s) - 1)

NumericTextOf(s) == SubSeq(s, RunStart(s), RunEnd(s))

SuffixOf(s) == SubSeq(s, RunEnd(s) + 1, Len(s))

RECURSIVE Pow10(_)
Pow10(k) == IF k = 0 THEN 1 ELSE 10 * Pow10(k - 1)

DigitValue(c) == CHOOSE v \in 0..9 : DigitChars[v + 1] = c

RECURSIVE NumValue(_)
NumValue(ds) ==
    IF ds = <<>> THEN 0
    ELSE DigitValue(Head(ds)) * Pow10(Len(ds) - 1) + NumValue(Tail(ds))

NumOf(s) == NumValue(NumericTextOf(s))

\* Number of digits of the decimal rendering of v
NaturalWidth(v) == CHOOSE k \in 1..9 : v < Pow10(k) /\ (k = 1 \/ v >= Pow10(k - 1))

\* v in decimal, left-padded with '0' to at least width characters
Padded(v, width) ==
    LET w == IF NaturalWidth(v) > width THEN NaturalWidth(v) ELSE width
    IN [j \in 1..w |-> DigitChars[((v \div Pow10(w - j)) % 10) + 1]]

PadWidth(start, end) ==
    IF Len(NumericTextOf(start)) >= Len(NumericTextOf(end))
    THEN Len(NumericTextOf(start)) ELSE Len(NumericTextOf(end))

\* (start, end) passes every check of the expander
SameFamily(start, end) ==
    /\ HasDigit(start) /\ HasDigit(end)
    /\ PrefixOf(start) = PrefixOf(end)
    /\ SuffixOf(start) = SuffixOf(end)

ValidRange(start, end) == SameFamily(start, end) /\ NumOf(start) <= NumOf(end)

RangeCount(start, end) == NumOf(end) - NumOf(start) + 1

Expanded == pc = "expanded"

\* C1: for every pair (start, end) that passes all the checks of expandRange,
\* the result is exactly the list whose i-th element (i = 0 .. endNum - startNum)
\* is prefix + pad(startNum + i) + suffix, in ascending order, of length
\* endNum - startNum + 1.
C1_ExactSequence ==
    (Expanded /\ ValidRange(firstSerial, lastSerial)) =>
        /\ expansion.hasResult
        /\ Len(expansion.result) = RangeCount(firstSerial, lastSerial)
        /\ \A i \in 0..(NumOf(lastSerial) - NumOf(firstSerial)) :
            expansion.result[i + 1] =
                PrefixOf(firstSerial)
                \o Padded(NumOf(firstSerial) + i, PadWidth(firstSerial, lastSerial))
                \o SuffixOf(firstSerial)

\* A valid range of several serials with a prefix and a suffix has been expanded.
C1_Witness ==
    /\ Expanded /\ ValidRange(firstSerial, lastSerial)
    /\ RangeCount(firstSerial, lastSerial) >= 10
    /\ PrefixOf(firstSerial) # <<>>
    /\ expansion.hasResult

\* The numeric part of the k-th serial of a result
NumericPart(k) ==
    SubSeq(expansion.result[k], Len(PrefixOf(firstSerial)) + 1,
           Len(expansion.result[k]) - Len(SuffixOf(firstSerial)))

\* C2: in every successful expansion the numeric part of each serial is the
\* decimal rendering of its value left-padded with '0' to
\* padWidth = max(len(start.numericText), len(end.numericText)); a rendering
\* already padWidth long is emitted unchanged, never truncated.
C2_Padding ==
    (Expanded /\ expansion.hasResult) =>
        \A k \in 1..Len(expansion.result) :
            LET v == NumOf(firstSerial) + k - 1
                w == PadWidth(firstSerial, lastSerial)
                n == NumericPart(k)
                nat == NaturalWidth(v)
            IN /\ \A j \in 1..Len(n) : n[j] \in Digits
               /\ NumValue(n) = v
               /\ Len(n) = (IF nat >= w THEN nat ELSE w)
               /\ \A j \in 1..(Len(n) - nat) : n[j] = "0"
               /\ nat >= w => n = Padded(v, 1)

\* A result holding both a padded serial and one whose number fills the width,
\* from endpoints of different lengths ("1" to "10" gives "01" .. "10").
C2_Witness ==
    /\ Expanded /\ expansion.hasResult
    /\ Len(NumericTextOf(firstSerial)) < Len(NumericTextOf(lastSerial))
    /\ \E k \in 1..Len(expansion.result) :
        NaturalWidth(NumOf(firstSerial) + k - 1) < PadWidth(firstSerial, lastSerial)
    /\ \E k \in 1..Len(expansion.result) :
        /\ NaturalWidth(NumOf(firstSerial) + k - 1) = PadWidth(firstSerial, lastSerial)
        /\ NumericPart(k) = Padded(NumOf(firstSerial) + k - 1, 1)

\* A field as the resolvers see it: without the blanks around it
Trimmed(s) ==
    IF \A k \in 1..Len(s) : s[k] \in Whitespace THEN <<>>
    ELSE LET a == CHOOSE i \in 1..Len(s) :
                    s[i] \notin Whitespace /\ \A j \in 1..(i - 1) : s[j] \in Whitespace
             b == CHOOSE i \in 1..Len(s) :
                    s[i] \notin Whitespace /\ \A j \in (i + 1)..Len(s) : s[j] \in Whitespace
         IN SubSeq(s, a, b)

\* A resolver has resolved the two fields as a range.
ResolvedManual == pc = "manual" /\ addMode = "range"

ResolvedScanned == pc = "scanned" /\ category = METERS

Resolved == ResolvedManual \/ ResolvedScanned

BothGiven == Trimmed(firstSerial) # <<>> /\ Trimmed(lastSerial) # <<>>

\* C3: a range whose count endNum - startNum + 1 exceeds 1000 is resolved to a
\* failure that names the cap 1000 and the actual count, with an empty serial
\* list; a range of exactly 1000 succeeds with exactly 1000 serials; in the
\* manual and in the scan-triggered resolver alike.
C3_Cap ==
    (Resolved /\ BothGiven /\ ValidRange(Trimmed(firstSerial), Trimmed(lastSerial))) =>
        LET count == RangeCount(Trimmed(firstSerial), Trimmed(lastSerial)) IN
        /\ count > 1000 =>
            /\ processing.serials = <<>>
            /\ ~processing.error.isNull
            /\ processing.error.text =
                "Range is too large. A maximum of 1000 items can be added at once, but this range contains ${expanded.length}."
            /\ processing.error.count = Padded(count, 1)
        /\ count = 1000 =>
            /\ Len(processing.serials) = 1000
            /\ processing.error.isNull

\* The scan-triggered resolver has rejected a range of more than 1000 serials.
C3_Witness ==
    /\ ResolvedScanned /\ BothGiven
    /\ ValidRange(Trimmed(firstSerial), Trimmed(lastSerial))
    /\ RangeCount(Trimmed(firstSerial), Trimmed(lastSerial)) = 1001
    /\ processing.serials = <<>>
    /\ processing.error.count = <<"1", "0", "0", "1">>

\* The failure the ordered checks give for (start, end), "none" when all pass
FirstFailure(start, end) ==
    IF ~HasDigit(start) \/ ~HasDigit(end)
    THEN "Invalid format. Serials must contain a number part for range expansion."
    ELSE IF PrefixOf(start) # PrefixOf(end) \/ SuffixOf(start) # SuffixOf(end)
    THEN "The text parts (prefix/suffix) of the serial numbers do not match."
    ELSE IF NumOf(start) > NumOf(end)
    THEN "The start number cannot be greater than the end number."
    ELSE IF RangeCount(start, end) > 1000
    THEN "Range is too large. A maximum of 1000 items can be added at once, but this range contains ${expanded.length}."
    ELSE "none"

ExpanderFailures ==
    {"Invalid format. Serials must contain a number part for range expansion.",
     "The text parts (prefix/suffix) of the serial numbers do not match.",
     "The start number cannot be greater than the end number."}

\* C4: the checks are applied in the order missing numeric component,
\* prefix/suffix mismatch, reversed range, range too large, and the reported
\* failure is always that of the first check that fails.
C4_FirstFailureWins ==
    /\ Expanded =>
        LET f == FirstFailure(firstSerial, lastSerial) IN
        IF f \in ExpanderFailures
        THEN expansion.hasError /\ expansion.error = f
        ELSE expansion.hasResult
    /\ (Resolved /\ BothGiven) =>
        LET f == FirstFailure(Trimmed(firstSerial), Trimmed(lastSerial)) IN
        IF f = "none"
        THEN processing.error.isNull
        ELSE ~processing.error.isNull /\ processing.error.text = f

\* Endpoints with mismatched prefixes and start number > end number: only the
\* mismatch is reported.
C4_Witness ==
    /\ Expanded
    /\ HasDigit(firstSerial) /\ HasDigit(lastSerial)
    /\ PrefixOf(firstSerial) # PrefixOf(lastSerial)
    /\ NumOf(firstSerial) > NumOf(lastSerial)
    /\ expansion.error = "The text parts (prefix/suffix) of the serial numbers do not match."

\* C5: if either start or end contains no decimal digit, expansion fails with
\* the missing-numeric-component reason and yields no serials, regardless of
\* the other endpoint.
C5_MissingNumeric ==
    /\ (Expanded /\ (~HasDigit(firstSerial) \/ ~HasDigit(lastSerial))) =>
        /\ expansion.hasError /\ ~expansion.hasResult
        /\ expansion.error =
            "Invalid format. Serials must contain a number part for range expansion."
        /\ expansion.result = <<>>
    /\ (Resolved /\ BothGiven
            /\ (~HasDigit(Trimmed(firstSerial)) \/ ~HasDigit(Trimmed(lastSerial)))) =>
        /\ processing.serials = <<>>
        /\ processing.error.text =
            "Invalid format. Serials must contain a number part for range expansion."

\* Only the end lacks a digit, and the expansion has failed for it.
C5_Witness ==
    /\ Expanded
    /\ HasDigit(firstSerial) /\ ~HasDigit(lastSerial) /\ lastSerial # <<>>
    /\ expansion.hasError /\ expansion.result = <<>>

\* C6: when both endpoints parse, expansion fails with the prefix/suffix
\* mismatch reason if and only if start.prefix differs from end.prefix or
\* start.suffix differs from end.suffix, compared exactly and case-sensitively.
C6_MismatchIff ==
    (Expanded /\ HasDigit(firstSerial) /\ HasDigit(lastSerial)) =>
        ((expansion.hasError /\ expansion.error =
            "The text parts (prefix/suffix) of the serial numbers do not match.")
         <=> (PrefixOf(firstSerial) # PrefixOf(lastSerial)
              \/ SuffixOf(firstSerial) # SuffixOf(lastSerial)))

UpperCase(s) == [k \in 1..Len(s) |-> IF s[k] = "a" THEN "A" ELSE s[k]]

\* Endpoints whose text parts differ only in letter case have been rejected.
C6_Witness ==
    /\ Expanded /\ HasDigit(firstSerial) /\ HasDigit(lastSerial)
    /\ firstSerial # lastSerial
    /\ UpperCase(firstSerial) = UpperCase(lastSerial)
    /\ expansion.hasError
    /\ expansion.error = "The text parts (prefix/suffix) of the serial numbers do not match."

\* C7: when both endpoints parse and their prefixes and suffixes match,
\* expansion fails with the reversed-range reason exactly when
\* startNum > endNum as integers (leading zeros insignificant), with no
\* partial output; startNum = endNum yields a one-element result.
C7_ReversedIff ==
    (Expanded /\ SameFamily(firstSerial, lastSerial)) =>
        /\ (expansion.hasError /\ expansion.error =
                "The start number cannot be greater than the end number.")
            <=> NumOf(firstSerial) > NumOf(lastSerial)
        /\ NumOf(firstSerial) > NumOf(lastSerial) =>
            ~expansion.hasResult /\ expansion.result = <<>>
        /\ NumOf(firstSerial) = NumOf(lastSerial) =>
            expansion.hasResult /\ Len(expansion.result) = 1

\* A reversed range whose start has the shorter digit run ("11" to "010").
C7_Witness ==
    /\ Expanded /\ SameFamily(firstSerial, lastSerial)
    /\ NumOf(firstSerial) > NumOf(lastSerial)
    /\ Len(NumericTextOf(firstSerial)) < Len(NumericTextOf(lastSerial))
    /\ expansion.hasError /\ expansion.result = <<>>

\* C8: every result of expandRange is exactly one of a non-empty ordered list
\* of serials or a single failure reason, never both, and a success is never
\* an empty list.
C8_ResultXorReason ==
    Expanded =>
        /\ expansion.hasResult # expansion.hasError
        /\ expansion.hasResult =>
            Len(expansion.result) >= 1 /\ expansion.error = "undefined"
        /\ expansion.hasError =>
            expansion.result = <<>> /\ expansion.error \in ExpanderFailures

\* The smallest success: start and end are the same serial.
C8_Witness ==
    /\ Expanded /\ firstSerial = lastSerial
    /\ expansion.hasResult /\ Len(expansion.result) = 1

Parsed == pc = "parsed"

\* C9: for every string on which parseSerial succeeds,
\* prefix + numericText + suffix equals the original string, and numericText
\* is non-empty and consists only of decimal digits.
C9_RoundTrip ==
    (Parsed /\ ~parts.isNull) =>
        /\ parts.prefix \o parts.numStr \o parts.suffix = serial
        /\ Len(parts.numStr) >= 1
        /\ \A k \in 1..Len(parts.numStr) : parts.numStr[k] \in Digits

\* A serial with text on both sides of its number has been parsed.
C9_Witness ==
    /\ Parsed /\ ~parts.isNull
    /\ parts.prefix # <<>> /\ parts.suffix # <<>>

\* C10: the parser captures the rightmost maximal digit run: the suffix
\* contains no digit, the prefix is empty or ends in a non-digit, earlier digit
\* runs stay inside the prefix, and an all-digit string gives an empty prefix
\* and suffix.
C10_RightmostRun ==
    (Parsed /\ ~parts.isNull) =>
        /\ ~HasDigit(parts.suffix)
        /\ parts.prefix = <<>> \/ parts.prefix[Len(parts.prefix)] \notin Digits
        /\ parts.numStr = NumericTextOf(serial)
        /\ parts.prefix = PrefixOf(serial)
        /\ parts.suffix = SuffixOf(serial)
        /\ (\A k \in 1..Len(serial) : serial[k] \in Digits) =>
            parts.prefix = <<>> /\ parts.suffix = <<>>

\* A serial with two separate digit runs: the earlier one is in the prefix.
C10_Witness ==
    /\ Parsed /\ ~parts.isNull
    /\ HasDigit(parts.prefix)
    /\ parts.numStr = <<"1">>

\* C11: parseSerial returns null if and only if the string contains no decimal
\* digit; the empty string yields null, and any string with a digit yields the
\* three parts.
C11_NotFoundIff ==
    Parsed =>
        /\ parts.isNull <=> ~HasDigit(serial)
        /\ serial = <<>> => parts.isNull
        /\ HasDigit(serial) => parts.numStr # <<>>

\* The empty string has been parsed, and nothing was found.
C11_Witness == Parsed /\ serial = <<>> /\ parts.isNull

\* C19: when the digit runs of start and end have the same length and the
\* range is valid, the first element of the result is exactly the start string
\* and the last is exactly the end string; expandRange(s, s) = [s] for every s
\* that contains a digit.
C19_Endpoints ==
    /\ (Expanded /\ ValidRange(firstSerial, lastSerial)
            /\ Len(NumericTextOf(firstSerial)) = Len(NumericTextOf(lastSerial))) =>
        /\ expansion.hasResult
        /\ expansion.result[1] = firstSerial
        /\ expansion.result[Len(expansion.result)] = lastSerial
        /\ firstSerial = lastSerial => expansion.result = <<firstSerial>>
    \* the scan dialog opened by a scan holds the scanned serial in both fields
    /\ (ResolvedScanned /\ firstSerial = lastSerial /\ HasDigit(firstSerial)) =>
        processing.error.isNull /\ processing.serials = <<Trimmed(firstSerial)>>

\* A serial with leading zeros in its number, expanded against itself.
C19_Witness ==
    /\ Expanded /\ firstSerial = lastSerial /\ HasDigit(firstSerial)
    /\ NumericTextOf(firstSerial)[1] = "0" /\ Len(NumericTextOf(firstSerial)) >= 2
    /\ expansion.result = <<firstSerial>>

\* C20: re-parsing the i-th serial of a successful expansion gives the prefix
\* and suffix of the endpoints and a numericText of value startNum + i, so the
\* serials are pairwise distinct and strictly ascending by embedded number.
C20_SameFamily ==
    (Expanded /\ expansion.hasResult) =>
        /\ \A k \in 1..Len(expansion.result) :
            LET p == parseSerial(expansion.result[k]) IN
            /\ ~p.isNull
            /\ p.prefix = PrefixOf(firstSerial) /\ p.prefix = PrefixOf(lastSerial)
            /\ p.suffix = SuffixOf(firstSerial) /\ p.suffix = SuffixOf(lastSerial)
            /\ NumValue(p.numStr) = NumOf(firstSerial) + k - 1
        /\ \A k \in 1..(Len(expansion.result) - 1) :
            /\ expansion.result[k] # expansion.result[k + 1]
            /\ NumOf(expansion.result[k]) < NumOf(expansion.result[k + 1])
        /\ Cardinality({expansion.result[k] : k \in 1..Len(expansion.result)})
            = Len(expansion.result)

\* A result of several serials whose prefix itself holds a digit run.
C20_Witness ==
    /\ Expanded /\ expansion.hasResult /\ Len(expansion.result) >= 2
    /\ HasDigit(PrefixOf(firstSerial))

\* ------------------------------------------------------------ list mode
\* The entries of a list are located by position: an entry starts at a
\* character that is not blank and has only blanks between it and the start
\* of its line, and ends at the last non-blank character of the line.
RECURSIVE OnlyBlanksBack(_, _)
OnlyBlanksBack(text, j) ==
    IF j = 0 THEN TRUE
    ELSE IF text[j] = "\n" THEN TRUE
    ELSE IF text[j] = " " THEN OnlyBlanksBack(text, j - 1)
    ELSE FALSE

EntryStarts(text) ==
    {i \in 1..Len(text) : text[i] \notin {" ", "\n"} /\ OnlyBlanksBack(text, i - 1)}

RECURSIVE LineEnd(_, _)
LineEnd(text, i) ==
    IF i = Len(text) \/ text[i + 1] = "\n" THEN i ELSE LineEnd(text, i + 1)

RECURSIVE LastNonBlank(_, _)
LastNonBlank(text, j) == IF text[j] # " " THEN j ELSE LastNonBlank(text, j - 1)

EntryAt(text, i) == SubSeq(text, i, LastNonBlank(text, LineEnd(text, i)))

\* The entries in the order of the text
EntriesMatch(text, lines) ==
    LET starts == EntryStarts(text) IN
    /\ Len(lines) = Cardinality(starts)
    /\ \A i \in starts :
        lines[Cardinality({j \in starts : j <= i})] = EntryAt(text, i)

HasRepeatedEntry(text) ==
    LET starts == EntryStarts(text) IN
    \E i \in starts : \E j \in starts : i < j /\ EntryAt(text, i) = EntryAt(text, j)

ResolvedList == pc = "manual" /\ addMode = "list"

\* C17: in list mode a list with more than 1000 non-blank entries is rejected
\* with a failure that names the cap and the number of entries, and no serials
\* are returned; a list of exactly 1000 distinct entries is accepted; the
\* length is checked before duplicates are.
C17_ListCap ==
    ResolvedList =>
        LET n == Cardinality(EntryStarts(barcodes)) IN
        /\ n > 1000 =>
            /\ processing.serials = <<>>
            /\ ~processing.error.isNull
            /\ processing.error.text =
                "List is too long. A maximum of 1000 items can be added at once, but you have provided ${lines.length}."
            /\ processing.error.count = Padded(n, 1)
        /\ (n = 1000 /\ ~HasRepeatedEntry(barcodes)) =>
            /\ processing.error.isNull
            /\ Len(processing.serials) = 1000

\* A list of 1001 entries with a repeated entry in it: rejected for its length.
C17_Witness ==
    /\ ResolvedList
    /\ Cardinality(EntryStarts(barcodes)) = 1001
    /\ HasRepeatedEntry(barcodes)
    /\ processing.serials = <<>>
    /\ processing.error.count = <<"1", "0", "0", "1">>

\* C18: in list mode a list within the cap is rejected if and only if two of
\* its entries are identical, compared exactly and case-sensitively after each
\* line is trimmed; an accepted list is returned in input order with the blank
\* lines removed.
C18_DuplicatesIff ==
    (ResolvedList /\ Cardinality(EntryStarts(barcodes)) <= 1000) =>
        /\ (~processing.error.isNull /\ processing.error.text =
                "The list contains duplicate serial numbers. Please ensure each is unique.")
            <=> HasRepeatedEntry(barcodes)
        /\ HasRepeatedEntry(barcodes) => processing.serials = <<>>
        /\ ~HasRepeatedEntry(barcodes) =>
            /\ processing.error.isNull
            /\ EntriesMatch(barcodes, processing.serials)

\* Two entries that differ only in letter case, accepted in their order.
C18_Witness ==
    /\ ResolvedList
    /\ barcodes = <<"a", "\n", "A">>
    /\ processing.error.isNull
    /\ processing.serials = << <<"a">>, <<"A">> >>

\* ------------------------------------------------------------ invocations, step by step
\* Whether the integer written by the last digit run of s is a number
Representable(n) == NumLess(n, TwoPow53) \/ n.lo % 2 = 0

ExactEndpoint(s) == Representable(DigitsToInteger(NumericTextOf(s)))

Entered(c) == frames[c].pc # "idle"

\* C12: the too-large rejection is decided from endNum - startNum + 1 before
\* any element is generated, so in no state of an expansion does the
\* sequence built so far hold more than 1000 serials.
C12_CountBeforeElements ==
    \A c \in Callers : Len(frames[c].results) <= MaxBulkItems

\* C13: an endpoint whose digit run is an integer that is not exactly a
\* number is rejected like a missing number part; the expander never goes on
\* with a rounded startNum or endNum.
C13_InexactRejected ==
    \A c \in Callers :
        (/\ Entered(c)
         /\ HasDigit(frames[c].start) /\ HasDigit(frames[c].end)
         /\ ~(ExactEndpoint(frames[c].start) /\ ExactEndpoint(frames[c].end)))
        => /\ frames[c].pc \in {"returned", "resolved"}
           /\ frames[c].ret = ErrorOf(ErrInvalidFormat)

\* C14: for any two strings the expander returns a list or a failure and
\* never throws.
C14_NeverThrows ==
    \A c \in Callers : frames[c].pc # "thrown"

\* C15: two invocations with the same (start, end), wherever they stand in a
\* sequence of other invocations, return identical results.
C15_SameInputsSameResult ==
    \A j, k \in 1..Len(history) :
        (history[j].start = history[k].start /\ history[j].end = history[k].end)
        => history[j].ret = history[k].ret

\* The same range expanded twice with a failing invocation in between
C15_Witness ==
    /\ Len(history) = 3
    /\ history[1].start = history[3].start /\ history[1].end = history[3].end
    /\ Len(history[1].ret.result) = 3
    /\ history[2].ret.hasError

\* C16: whatever the interleaving of the iterations of concurrent
\* invocations, each builds and returns what it returns when run alone.
C16_AsWhenAlone ==
    \A c \in Callers :
        LET alone == expandRange(frames[c].start, frames[c].end) IN
        /\ frames[c].pc = "loop" =>
              /\ alone.hasResult
              /\ Len(frames[c].results) <= Len(alone.result)
              /\ frames[c].results = SubSeq(alone.result, 1, Len(frames[c].results))
        /\ frames[c].pc \in {"returned", "resolved"} => frames[c].ret = alone

\* Both callers are in the middle of their loops, over different ranges
C16_Witness ==
    /\ frames[1].pc = "loop" /\ Len(frames[1].results) = 2
    /\ frames[2].pc = "loop" /\ Len(frames[2].results) = 1
    /\ frames[1].end # frames[2].end

\* ------------------------------------------------------------ the resolvers' result
NoSerialsNoError == ProcessingResult(<<>>, NullError)

ErrorMeansNoSerials(result) == ~result.error.isNull => result.serials = <<>>

BlankText(text) == \A k \in 1..Len(text) : text[k] \in Whitespace

\* C21: a resolver, in range mode and in list mode, returns (serials, error)
\* with no serials whenever there is an error; when a trimmed endpoint is
\* empty or the list text is blank it returns no serials and no error, and
\* the expander is not run.
C21_ErrorOrSerials ==
    /\ pc \in {"manual", "scanned"} => ErrorMeansNoSerials(processing)
    /\ (Resolved /\ ~BothGiven) => processing = NoSerialsNoError
    /\ (ResolvedList /\ BlankText(barcodes)) => processing = NoSerialsNoError
    /\ frames[1].pc = "resolved" => ErrorMeansNoSerials(frames[1].out)
    /\ (Entered(1) /\ ~BothGiven) =>
          /\ frames[1].pc = "resolved"
          /\ frames[1].out = NoSerialsNoError
          /\ frames[1].ret = NoExpansion
          /\ history = <<>>

\* A range over the cap resolved to its error, step by step
C21_Witness ==
    /\ frames[1].pc = "resolved"
    /\ ~frames[1].out.error.isNull
    /\ Len(frames[1].ret.result) > MaxBulkItems

\* ------------------------------------------------------------ adding stock
\* A submission of a list of serials for a unique item type
BulkUnique(sub) ==
    /\ sub.type.is_unique
    /\ \/ sub.handler = "handleAddItem"
       \/ sub.handler = "handleAddScannedItem" /\ sub.type.category = "Meters"

InStock(barcode) == \E k \in 1..Len(stockItems) : stockItems[k].barcode = barcode

\* C22: for a unique item type a bulk-add submission reaches the bulk insert
\* only with a non-empty serial list, no processing error, and a lookup that
\* reported no serial as existing; when a serial is in stock at the lookup
\* the submission fails, and a failed submission has inserted nothing.
C22_InsertOnlyIfNew ==
    /\ [](\A s \in Submitters :
            LET sub == submissions[s] IN
            BulkUnique(sub) =>
                /\ sub.pc \in {"insert", "done"} =>
                      /\ Len(sub.serials) > 0
                      /\ sub.processingError.isNull
                      /\ sub.existing = {}
                      /\ Len(sub.itemsToAdd) = Len(sub.serials)
                /\ sub.existing # {} => sub.pc = "failed"
                /\ sub.pc = "failed" => sub.inserted = 0)
    /\ [][\A s \in Submitters :
            (/\ BulkUnique(submissions[s])
             /\ submissions[s].pc = "lookup"
             /\ \E k \in 1..Len(submissions[s].serials) : InStock(submissions[s].serials[k]))
            => submissions'[s].pc \in {"lookup", "failed"}]_vars

\* A range of two serials, the first of them in stock, has failed at the
\* lookup and the second serial has not been inserted.
C22_Witness ==
    \E s \in Submitters :
        /\ BulkUnique(submissions[s])
        /\ submissions[s].pc = "failed"
        /\ submissions[s].serials = << <<"A", "1">>, <<"A", "2">> >>
        /\ submissions[s].existing = { <<"A", "1">> }
        /\ ~InStock(<<"A", "2">>)

IsUniqueName(name) == \E type \in ItemTypes : type.name = name /\ type.is_unique

\* C23: after any interleaving of bulk-add submissions for a unique item
\* type, no two stock items of the user share a barcode.
C23_NoSharedBarcode ==
    LET OfUniqueType(row) == IsUniqueName(row.name)
        unique == SelectSeq(stockItems, OfUniqueType)
    IN Cardinality({unique[k].barcode : k \in 1..Len(unique)}) = Len(unique)

\* C24: every bulk insert issued by the add-item, add-scanned-item and
\* add-quantity handlers holds at most 1000 items.
C24_InsertAtMostCap ==
    \A s \in Submitters :
        submissions[s].pc \in {"insert", "done"} => Len(submissions[s].itemsToAdd) <= 1000

\* ------------------------------------------------------------ rapid scan-out
Processing(c) == rapidScan.scans[c].pc \in {"query", "assign", "refetch"}

\* C25: in rapid scan-out mode at most one scan is being processed at any
\* time; a scan that arrives while the flag is set returns without querying
\* or assigning; after every processed scan the flag is eventually cleared,
\* so that later scans are accepted.
C25_OneScanAtATime ==
    /\ [](Cardinality({c \in ScanIds : Processing(c)}) <= 1)
    /\ [](\A c \in ScanIds :
            /\ Processing(c) => rapidScan.isProcessingScan
            /\ rapidScan.scans[c].pc = "ignored" =>
                  ~rapidScan.scans[c].queried /\ ~rapidScan.scans[c].assigned)
    /\ \A c \in ScanIds : Processing(c) ~> ~rapidScan.isProcessingScan
    /\ [][\A c \in ScanIds :
            (rapidScan.scans[c].pc = "idle" /\ rapidScan'.scans[c].pc = "ignored")
            => \E d \in ScanIds : rapidScan.scans[d].pc \in {"query", "assign", "refetch", "timer"}]_vars

\* One scan was ignored while another was processed, and a third was
\* accepted after the flag was cleared
C25_Witness ==
    \E b, c, d \in ScanIds :
        /\ rapidScan.scans[b].pc = "done" /\ rapidScan.scans[b].outcome = "success"
        /\ rapidScan.scans[c].pc = "ignored"
        /\ rapidScan.scans[d].pc = "assign"

\* ------------------------------------------------------------ Scanner
\* C26: in non-persistent mode onScanSuccess is delivered at most once per
\* mount, however the barcodeScanned events interleave with the stop, and
\* the scanner has been stopped before that callback is delivered.
C26_OnceAndStopped ==
    /\ scanner.delivered <= 1
    /\ scanner.delivered = 1 => ~scanner.scanningAtDelivery

\* onScanSuccess is delivered at most once per mount.
C26_AtMostOnce == scanner.delivered <= 1

\* ------------------------------------------------------------ updateStockItemAssignment
\* The update of the call in progress has been made
AssignmentMade == assignment.call.pc \in {"insert", "fetch", "returned"}

WasUnassigned == assignment.call.before.assigned_to = "Unassigned"

IsUnassigned == assignment.call.assigned_to = "Unassigned"

\* C27: updateStockItemAssignment records an OUT movement exactly when the
\* item goes from unassigned to assigned, an IN movement exactly when it goes
\* from assigned to unassigned, and none when it stays unassigned or moves
\* between teams; a failed write of the movement neither undoes nor fails
\* the update.
C27_Movements ==
    /\ [](AssignmentMade =>
            /\ assignment.call.movement.movement_type = "OUT" <=> (WasUnassigned /\ ~IsUnassigned)
            /\ assignment.call.movement.movement_type = "IN" <=> (~WasUnassigned /\ IsUnassigned)
            /\ assignment.call.movement.movement_type \in {"OUT", "IN", "none"}
            /\ assignment.item.assigned_to = assignment.call.assigned_to
            /\ assignment.item.location = assignment.call.location)
    /\ [][LET made == Len(assignment'.movements) - Len(assignment.movements) IN
          /\ made \in {0, 1}
          /\ made = 1 =>
                /\ assignment.call.pc = "insert"
                /\ assignment'.movements[Len(assignment'.movements)] = assignment.call.movement
          /\ (assignment.call.pc = "insert" /\ assignment'.call.pc # "insert") =>
                /\ assignment'.call.pc = "fetch"
                /\ assignment'.item = assignment.item
                /\ made = 1 <=> ~assignment'.call.moveError
          /\ (assignment.call.pc = "fetch" /\ assignment'.call.pc # "fetch") =>
                assignment'.call.pc = "returned" /\ made = 0]_vars

\* An assignment to a team whose movement could not be written has returned,
\* after a return to stock that recorded its IN movement
C27_Witness ==
    /\ assignment.call.pc = "returned"
    /\ assignment.call.moveError
    /\ assignment.call.movement.movement_type = "OUT"
    /\ assignment.item.assigned_to = "Team A"
    /\ Len(assignment.movements) = 1
    /\ assignment.movements[1].movement_type = "IN"

\* ------------------------------------------------------------ ReceiveStockModal
\* C28: after any sequence of quantity changes and serial edits the receiving
\* quantity of an outstanding item is an integer q with
\* 0 <= q <= quantity_ordered - quantity_received, and for a unique item type
\* there are exactly q serial entries.
C28_QuantityInRange ==
    /\ receiving.quantity \in 0..receiving.outstanding
    /\ receiving.is_unique => Len(receiving.serials) = receiving.quantity

\* The same for the quantities that are numbers, and the dialog still running
C28_NumbersInRange ==
    ~isNaN(receiving.quantity) =>
        /\ receiving.quantity \in 0..receiving.outstanding
        /\ receiving.is_unique => Len(receiving.serials) = receiving.quantity

\* ------------------------------------------------------------ fetchStock
\* C29: every fetchStock invocation terminates; its loop stops at the first
\* page that is empty, has fewer than 1000 rows or returns an error; it ends
\* with loading = false; on error the stock is empty, on success it is the
\* fetched pages concatenated in order.
C29_FetchTerminates ==
    /\ fetching.pc = "user" ~> fetching.pc = "done"
    /\ [](fetching.pc = "done" =>
            /\ ~fetching.loading
            /\ fetching.failed => fetching.stock = <<>>
            /\ ~fetching.failed =>
                  /\ Len(fetching.pages) > 0
                  /\ fetching.pages[Len(fetching.pages)] < 1000
                  /\ \A k \in 1..(Len(fetching.pages) - 1) : fetching.pages[k] = 1000
                  /\ Len(fetching.stock) = 1000 * (Len(fetching.pages) - 1)
                                            + fetching.pages[Len(fetching.pages)]
                  /\ \A k \in 1..Len(fetching.stock) : fetching.stock[k] = k
                  /\ ~fetching.cut => Len(fetching.stock) = fetching.rows)
    /\ [](fetching.pc = "page" =>
            /\ Len(fetching.pages) = fetching.page
            /\ \A k \in 1..Len(fetching.pages) : fetching.pages[k] = 1000)

\* A table of two full pages has been fetched: the third page was empty
C29_Witness ==
    /\ fetching.pc = "done"
    /\ ~fetching.failed /\ ~fetching.cut
    /\ fetching.rows = 2000
    /\ fetching.pages = <<1000, 1000, 0>>
    /\ Len(fetching.stock) = 2000

\* ------------------------------------------------------------ toasts
Visible(list) == { k \in 1..Len(list) : list[k].status # "exiting" }

StatusOf(list, id) == { list[k].status : k \in { j \in 1..Len(list) : list[j].id = id } }

\* C30: at most 3 toasts have a status other than 'exiting'; when a new
\* toast pushes the count over the limit, the toasts marked 'exiting' are the
\* oldest non-exiting ones; an 'exiting' toast never becomes visible again.
C30_ToastLimit ==
    /\ [](Cardinality(Visible(toasts.list)) <= 3)
    /\ [][\A id \in 1..MaxToasts :
            /\ "exiting" \in StatusOf(toasts.list, id)
                  => StatusOf(toasts'.list, id) \subseteq {"exiting"}
            /\ (/\ toasts'.nextId # toasts.nextId
                /\ StatusOf(toasts.list, id) = {"entering"}
                /\ StatusOf(toasts'.list, id) = {"exiting"})
                  => /\ Cardinality(Visible(toasts.list)) = 3
                     /\ Cardinality(Visible(toasts'.list)) = 3
                     /\ \A k \in Visible(toasts.list) : toasts.list[k].id >= id]_vars

\* A fourth toast has been added while three were visible: the oldest of
\* them is exiting and the three newest are visible
C30_Witness ==
    /\ Len(toasts.list) = 4
    /\ toasts.list[4].status = "exiting"
    /\ 4 \in toasts.timers
    /\ Visible(toasts.list) = {1, 2, 3}

====
